---- MODULE Spec2Model ----
(***************************************************************************)
(* Puzzle state machine of SLA-Puzzle: the usePuzzleGame hook (square,     *)
(* triangle and tetris families) and the IrregularPuzzleGame screen.       *)
(*                                                                         *)
(* The hook keeps one GameState value (useState<GameState | null>) that    *)
(* every handler replaces through a pure updater prev -> next; the model   *)
(* keeps the same shape: the variable gameState is the record, and every   *)
(* handler is an operator from the previous record to the next one.        *)
(* Move ids and timestamps (Date.now()) are never read by any handler and  *)
(* are left out of the move records.                                       *)
(***************************************************************************)
EXTENDS Integers, Sequences, FiniteSets, TLC

VARIABLES
    gameState,      \* usePuzzleGame: useState<GameState | null>
    selectedPiece,  \* useState<string | null> (both components)
    timerRef,       \* usePuzzleGame: timerRef.current: "null", or a handle that
                    \* is "live" (still scheduled) or "cleared"
    intervals,      \* usePuzzleGame: number of interval callbacks scheduled
    irregular,      \* IrregularPuzzleGame: the screen's state hooks
    ops,            \* number of handler calls so far that changed the state
    timer,          \* usePuzzleGame: useState(0), the seconds shown
    saved,          \* a GameState outside the hook: in the save service, or
                    \* kept by the component that uses the hook
    mounted,        \* usePuzzleGame: the component is mounted
    hintTimeouts    \* the setTimeout callbacks of getHint not yet run, oldest
                    \* first, each with the piece its call highlighted
                    \* (both components)

vars == <<gameState, selectedPiece, timerRef, intervals, irregular, ops,
          timer, saved, mounted, hintTimeouts>>

(***************************************************************************)
(* Bounds of the exploration.                                              *)
(***************************************************************************)
MaxOps == 4         \* state-changing handler calls explored per session

NULL == -1          \* JavaScript null / undefined for slots and piece ids

(***************************************************************************)
(* JavaScript arithmetic and truthiness.                                   *)
(***************************************************************************)
\* a % n of JavaScript: the result takes the sign of the dividend.
JsRem(a, n) == IF a >= 0 THEN a % n ELSE -((-a) % n)

\* x || null : 0 is falsy, so slot 0 becomes null.
OrNull(x) == IF x = NULL \/ x = 0 THEN NULL ELSE x

Last(s) == s[Len(s)]
\* slice(1): drops the first element instead of the last
AllButFirst(s) == SubSeq(s, 2, Len(s))
Front(s) == SubSeq(s, 1, Len(s) - 1)

(***************************************************************************)
(* Puzzle configurations handed to initializeGame.  The generator is an    *)
(* external collaborator; these are the piece sets it is given here, each  *)
(* named by a key.                                                         *)
(*   square    : 1 x 2 grid, pieces 1..2, piece p belongs on slot p-1      *)
(*   triangle  : 3 triangle slots, even = upper, odd = lower; piece 3 is   *)
(*               cut rotated by 90 degrees                                 *)
(*   tetris    : 2 x 2 grid                                                *)
(*                   slots 0 1          B A                                *)
(*                         2 3          A A                                *)
(*               piece 1 (A) is an L whose bounding-box corner is empty    *)
(*   square3x3 : 3 x 3 grid, pieces 1..9, piece p belongs on slot p-1;     *)
(*               slot 4 is the only interior slot                          *)
(*   tetris2x3 : 2 x 3 grid                                                *)
(*                   slots 0 1 2        B C A                              *)
(*                         3 4 5        A A A                              *)
(*               piece 1 (A) is an L tetromino, pieces 2 (B) and 3 (C) are *)
(*               single cells                                              *)
(***************************************************************************)
\* the configurations of a played session
Configs == {"square", "triangle", "tetris"}

\* the configurations of the boards set up for single calls
BoardConfigs == {"square3x3", "tetris2x3"}

\* config.pieceShape
pieceShape(config) == CASE config = "square" -> "square"
                        [] config = "triangle" -> "triangle"
                        [] config = "tetris" -> "tetris"
                        [] config = "square3x3" -> "square"
                        [] config = "tetris2x3" -> "tetris"
                        [] config = "none" -> "none"

\* config.gridSize.rows
Rows(config) == CASE config = "square" -> 1
                  [] config = "triangle" -> 1
                  [] config = "tetris" -> 2
                  [] config = "square3x3" -> 3
                  [] config = "tetris2x3" -> 2

\* config.gridSize.cols
Cols(config) == CASE config = "square" -> 2
                  [] config = "triangle" -> 3
                  [] config = "tetris" -> 2
                  [] config = "square3x3" -> 3
                  [] config = "tetris2x3" -> 3

TotalSlots(config) == Rows(config) * Cols(config)

Slots(config) == 0 .. (TotalSlots(config) - 1)

PieceIds(config) == CASE config = "square" -> 1 .. 2
                      [] config = "triangle" -> 1 .. 3
                      [] config = "tetris" -> 1 .. 2
                      [] config = "square3x3" -> 1 .. 9
                      [] config = "tetris2x3" -> 1 .. 3

\* PuzzlePiece.occupiedPositions (tetris): relative [row, col] cells
occupiedPositions(config, p) ==
    CASE config = "tetris" /\ p = 1 -> << <<0, 1>>, <<1, 0>>, <<1, 1>> >>
      [] config = "tetris" /\ p = 2 -> << <<0, 0>> >>
      [] config = "tetris2x3" /\ p = 1 -> << <<0, 2>>, <<1, 0>>, <<1, 1>>, <<1, 2>> >>
      [] config = "tetris2x3" /\ p \in {2, 3} -> << <<0, 0>> >>
      [] OTHER -> << >>

\* PuzzlePiece.correctSlots (tetris): absolute slots when solved
correctSlots(config, p) ==
    CASE config = "tetris" /\ p = 1 -> <<1, 2, 3>>
      [] config = "tetris" /\ p = 2 -> <<0>>
      [] config = "tetris2x3" /\ p = 1 -> <<2, 3, 4, 5>>
      [] config = "tetris2x3" /\ p = 2 -> <<0>>
      [] config = "tetris2x3" /\ p = 3 -> <<1>>
      [] OTHER -> << >>

\* PuzzlePiece.correctSlot
correctSlot(config, p) ==
    IF pieceShape(config) = "tetris" THEN correctSlots(config, p)[1] ELSE p - 1

\* PuzzlePiece.correctRotation
correctRotation(config, p) == IF pieceShape(config) = "triangle" /\ p = 3 THEN 90 ELSE 0

\* PuzzlePiece.correctIsFlipped
correctIsFlipped(config, p) == FALSE

\* PuzzlePiece.triangleType
triangleType(config, p) ==
    IF pieceShape(config) # "triangle" THEN "none"
    ELSE IF (p - 1) % 2 = 0 THEN "upper" ELSE "lower"

\* rotation steps a caller may pass to rotatePiece
Deltas == {90}

(***************************************************************************)
(* GameState as a record.  pieces maps a piece id to its mutable fields;   *)
(* answerGrid holds, per slot, a value copy of the piece as it was when    *)
(* it was written into the slot (id = NULL for an empty slot).             *)
(***************************************************************************)
NoGame == [config |-> "none"]

EmptySlot == [id |-> NULL, currentSlot |-> NULL, rotation |-> 0, isFlipped |-> FALSE]

\* the value copy { ...piece } of piece p
Copy(ps, p) == [id |-> p, currentSlot |-> ps[p].currentSlot,
                rotation |-> ps[p].rotation, isFlipped |-> ps[p].isFlipped]

\* GameMove
Move(pieceId, action, fromSlot, toSlot, replacedPieceId, delta) ==
    [pieceId |-> pieceId, action |-> action, fromSlot |-> fromSlot,
     toSlot |-> toSlot, replacedPieceId |-> replacedPieceId, delta |-> delta]

\* endTime = new Date().  Timestamps are kept by their order: endTime = 0 is
\* undefined, endTime = k is the k-th reading of the clock written into the
\* field; readings taken by different calls differ.
newDate(prev) == prev.endTime + 1

\* config.pieces as the generator delivers them
generatedPieces(config) ==
    [p \in PieceIds(config) |->
        [currentSlot |-> NULL, rotation |-> 0, isFlipped |-> FALSE]]

\* the new GameState of initializeGame(config): only currentSlot is reset
initialState(config, configPieces) ==
    [config |-> config,
     pieces |-> [p \in PieceIds(config) |->
                    [configPieces[p] EXCEPT !.currentSlot = NULL]],
     moves |-> 0,
     isCompleted |-> FALSE,
     endTime |-> 0,
     elapsedTime |-> 0,
     history |-> << >>,
     redoStack |-> << >>,
     answerGrid |-> [i \in Slots(config) |-> EmptySlot]]

(***************************************************************************)
(* checkPuzzleComplete                                                     *)
(***************************************************************************)
NoGaps(grid) == \A i \in DOMAIN grid : grid[i].id # NULL

\* a completion check that looks at occupancy only
EntryPlaced(config, grid, i) == grid[i].id # NULL

\* the square / triangle branch: position and orientation of every entry
EntryCorrect(config, grid, i) ==
    /\ grid[i].id # NULL
    /\ correctSlot(config, grid[i].id) = i
    /\ JsRem(JsRem(grid[i].rotation, 360) + 360, 360)
           = correctRotation(config, grid[i].id)
    /\ grid[i].isFlipped = correctIsFlipped(config, grid[i].id)

\* the tetris branch: every correct slot of every piece holds that piece
TetrisCorrect(config, grid) ==
    \A p \in PieceIds(config) :
        \A k \in DOMAIN correctSlots(config, p) :
            grid[correctSlots(config, p)[k]].id = p

\* checkPuzzleComplete as seen by a caller whose closure knows pieceShape
\* (knownShape = "none" for a closure taken while gameState was still null)
checkPuzzleComplete(knownShape, config, grid) ==
    /\ NoGaps(grid)
    /\ IF knownShape = "tetris"
          THEN TetrisCorrect(config, grid)
          ELSE \A i \in DOMAIN grid : EntryCorrect(config, grid, i)

(***************************************************************************)
(* Tetris geometry: the slots a piece covers when its bounding-box corner  *)
(* (min row, min col of occupiedPositions) is mapped onto an anchor slot.  *)
(***************************************************************************)
MinOf(S) == CHOOSE x \in S : \A y \in S : x <= y

minRow(config, p) ==
    MinOf({occupiedPositions(config, p)[k][1] : k \in DOMAIN occupiedPositions(config, p)})

minCol(config, p) ==
    MinOf({occupiedPositions(config, p)[k][2] : k \in DOMAIN occupiedPositions(config, p)})

\* [row, col, slot] of every cell of p anchored at slot anchor
CellsAt(config, p, anchor) ==
    LET gridCols == Cols(config)
        aRow == anchor \div gridCols
        aCol == anchor % gridCols
    IN  { [row |-> aRow + (occupiedPositions(config, p)[k][1] - minRow(config, p)),
           col |-> aCol + (occupiedPositions(config, p)[k][2] - minCol(config, p)),
           slot |-> (aRow + (occupiedPositions(config, p)[k][1] - minRow(config, p))) * gridCols
                      + (aCol + (occupiedPositions(config, p)[k][2] - minCol(config, p)))]
          : k \in DOMAIN occupiedPositions(config, p) }

InBounds(config, c) ==
    c.row >= 0 /\ c.row < Rows(config) /\ c.col >= 0 /\ c.col < Cols(config)

\* placePieceToSlot, tetris validation: isValidPlacement
isValidPlacement(prev, pieceId, targetSlot) ==
    \A c \in CellsAt(prev.config, pieceId, targetSlot) :
        /\ InBounds(prev.config, c)
        /\ ~(prev.answerGrid[c.slot].id # NULL /\ prev.answerGrid[c.slot].id # pieceId)

\* clear every slot whose entry has this id
ClearId(grid, pieceId) ==
    [i \in DOMAIN grid |-> IF grid[i].id = pieceId THEN EmptySlot ELSE grid[i]]

\* slots of the grid array hit by writing p anchored at anchor
\* (undo / redo write only where 0 <= slotIndex < length)
WriteSlots(config, grid, p, anchor) ==
    {c.slot : c \in CellsAt(config, p, anchor)} \cap DOMAIN grid

(***************************************************************************)
(* placePieceToSlot: the state updater                                     *)
(***************************************************************************)
\* the self-replacement guard
SelfSlot(prev, pieceId, targetSlot) == prev.answerGrid[targetSlot].id = pieceId

UsesTetrisBranch(prev, pieceId) ==
    pieceShape(prev.config) = "tetris" /\ Len(occupiedPositions(prev.config, pieceId)) > 0

\* a placement that never compares the half with the slot parity
parityUnchecked(prev, pieceId, targetSlot) == FALSE

\* the triangle half / slot parity rule
TriangleMismatch(prev, pieceId, targetSlot) ==
    /\ pieceShape(prev.config) = "triangle"
    /\ \/ triangleType(prev.config, pieceId) = "upper" /\ targetSlot % 2 = 1
       \/ triangleType(prev.config, pieceId) = "lower" /\ targetSlot % 2 = 0

\* redoStack of a state produced by a new operation
redoAfterNewOperation(prev) == << >>

placeTetris(prev, pieceId, targetSlot) ==
    LET config == prev.config
        piece == prev.pieces[pieceId]
        cleared == IF piece.currentSlot # NULL
                      THEN ClearId(prev.answerGrid, pieceId)
                      ELSE prev.answerGrid
        updatedPieces == [prev.pieces EXCEPT ![pieceId].currentSlot = targetSlot]
        updatedPiece == Copy(updatedPieces, pieceId)
        newSlots == {c.slot : c \in CellsAt(config, pieceId, targetSlot)}
        newAnswerGrid == [i \in DOMAIN cleared |->
                             IF i \in newSlots THEN updatedPiece ELSE cleared[i]]
        move == Move(pieceId, "place", piece.currentSlot, targetSlot, NULL, 0)
        isComplete == NoGaps(newAnswerGrid)
    IN  [prev EXCEPT !.pieces = updatedPieces,
                     !.moves = prev.moves + 1,
                     !.history = Append(prev.history, move),
                     !.redoStack = redoAfterNewOperation(prev),
                     !.answerGrid = newAnswerGrid,
                     !.isCompleted = IF isComplete THEN TRUE ELSE prev.isCompleted,
                     !.endTime = IF isComplete THEN newDate(prev) ELSE prev.endTime]

\* the move recorded by the general branch
placeMove(piece, pieceId, targetSlot, existingPiece) ==
    Move(pieceId,
         IF existingPiece.id # NULL THEN "replace" ELSE "place",
         piece.currentSlot, targetSlot, existingPiece.id, 0)

placeGeneral(prev, pieceId, targetSlot) ==
    LET config == prev.config
        piece == prev.pieces[pieceId]
        existingPiece == prev.answerGrid[targetSlot]
        cleared == IF piece.currentSlot # NULL
                      THEN [prev.answerGrid EXCEPT ![piece.currentSlot] = EmptySlot]
                      ELSE prev.answerGrid
        updatedPieces ==
            [p \in DOMAIN prev.pieces |->
                IF existingPiece.id # NULL /\ p = existingPiece.id
                   THEN [prev.pieces[p] EXCEPT !.currentSlot = NULL]
                   ELSE IF p = pieceId
                           THEN [prev.pieces[p] EXCEPT !.currentSlot = targetSlot]
                           ELSE prev.pieces[p]]
        newAnswerGrid == [cleared EXCEPT ![targetSlot] = Copy(updatedPieces, pieceId)]
        \* placePieceToSlot is memoised with no dependencies: its
        \* checkPuzzleComplete is the one of the first render (gameState null)
        isComplete == checkPuzzleComplete("none", config, newAnswerGrid)
    IN  [prev EXCEPT !.pieces = updatedPieces,
                     !.moves = prev.moves + 1,
                     !.history = Append(prev.history,
                                        placeMove(piece, pieceId, targetSlot, existingPiece)),
                     !.redoStack = redoAfterNewOperation(prev),
                     !.answerGrid = newAnswerGrid,
                     !.isCompleted = IF isComplete THEN TRUE ELSE prev.isCompleted,
                     !.endTime = IF isComplete THEN newDate(prev) ELSE prev.endTime]

\* TRUE when the call returns prev unchanged
placeRejected(prev, pieceId, targetSlot) ==
    \/ SelfSlot(prev, pieceId, targetSlot)
    \/ UsesTetrisBranch(prev, pieceId) /\ ~isValidPlacement(prev, pieceId, targetSlot)
    \/ ~UsesTetrisBranch(prev, pieceId) /\ TriangleMismatch(prev, pieceId, targetSlot)

placePieceToSlotState(prev, pieceId, targetSlot) ==
    IF placeRejected(prev, pieceId, targetSlot) THEN prev
    ELSE IF UsesTetrisBranch(prev, pieceId)
            THEN placeTetris(prev, pieceId, targetSlot)
            ELSE placeGeneral(prev, pieceId, targetSlot)

(***************************************************************************)
(* removePieceFromSlot, rotatePiece, flipPiece: the state updaters         *)
(***************************************************************************)
\* a removal that does not look whether the piece is placed
removeUnguarded(prev, pieceId) ==
    [prev EXCEPT !.pieces = [prev.pieces EXCEPT ![pieceId].currentSlot = NULL],
                 !.moves = prev.moves + 1,
                 !.history = Append(prev.history,
                                Move(pieceId, "remove",
                                     prev.pieces[pieceId].currentSlot, NULL, NULL, 0)),
                 !.redoStack = << >>,
                 !.answerGrid = ClearId(prev.answerGrid, pieceId)]

removePieceFromSlotState(prev, pieceId) ==
    LET piece == prev.pieces[pieceId]
        newAnswerGrid ==
            IF pieceShape(prev.config) = "tetris"
               THEN ClearId(prev.answerGrid, pieceId)
               ELSE [prev.answerGrid EXCEPT ![piece.currentSlot] = EmptySlot]
        move == Move(pieceId, "remove", piece.currentSlot, NULL, NULL, 0)
    IN  IF piece.currentSlot = NULL THEN prev
        ELSE [prev EXCEPT !.pieces = [prev.pieces EXCEPT ![pieceId].currentSlot = NULL],
                          !.moves = prev.moves + 1,
                          !.history = Append(prev.history, move),
                          !.redoStack = redoAfterNewOperation(prev),
                          !.answerGrid = newAnswerGrid]

\* a rotation that keeps the angle within one turn
rotateWraps(prev, pieceId, delta) ==
    [prev EXCEPT !.pieces = [prev.pieces EXCEPT
                                ![pieceId].rotation =
                                    (prev.pieces[pieceId].rotation + delta) % 360],
                 !.moves = prev.moves + 1,
                 !.history = Append(prev.history,
                                    Move(pieceId, "rotate", NULL, NULL, NULL, delta)),
                 !.redoStack = << >>]

rotatePieceState(prev, pieceId, delta) ==
    [prev EXCEPT !.pieces = [prev.pieces EXCEPT
                                ![pieceId].rotation = prev.pieces[pieceId].rotation + delta],
                 !.moves = prev.moves + 1,
                 !.history = Append(prev.history,
                                    Move(pieceId, "rotate", NULL, NULL, NULL, delta)),
                 !.redoStack = redoAfterNewOperation(prev)]

flipPieceState(prev, pieceId) ==
    [prev EXCEPT !.pieces = [prev.pieces EXCEPT
                                ![pieceId].isFlipped = ~prev.pieces[pieceId].isFlipped],
                 !.moves = prev.moves + 1,
                 !.history = Append(prev.history,
                                    Move(pieceId, "flip", NULL, NULL, NULL, 0)),
                 !.redoStack = redoAfterNewOperation(prev)]

(***************************************************************************)
(* undo / redo: replay of one move against pieces and grid                 *)
(***************************************************************************)
\* newAnswerGrid[...] = { ...piece, currentSlot: slot } on the single slot, or
\* on every in-range cell of a tetris piece anchored at slot
WriteAt(config, grid, ps, p, slot) ==
    LET entry == [Copy(ps, p) EXCEPT !.currentSlot = slot]
        target == IF pieceShape(config) = "tetris" /\ Len(occupiedPositions(config, p)) > 0
                     THEN WriteSlots(config, grid, p, slot)
                     ELSE {slot}
    IN  [i \in DOMAIN grid |-> IF i \in target THEN entry ELSE grid[i]]

\* remove the moved piece from where the move put it
ClearMoved(config, grid, p, slot) ==
    IF pieceShape(config) = "tetris" THEN ClearId(grid, p)
    ELSE [grid EXCEPT ![slot] = EmptySlot]

\* the slot a piece goes back to when a place / replace is undone
undoTargetSlot(fromSlot) == OrNull(fromSlot)

undoPlace(prev, m) ==
    LET config == prev.config
        g1 == IF m.toSlot # NULL
                 THEN ClearMoved(config, prev.answerGrid, m.pieceId, m.toSlot)
                 ELSE prev.answerGrid
        ps1 == [prev.pieces EXCEPT ![m.pieceId].currentSlot = undoTargetSlot(m.fromSlot)]
        g2 == IF m.fromSlot # NULL
                 THEN WriteAt(config, g1, ps1, m.pieceId, m.fromSlot)
                 ELSE g1
    IN  [pieces |-> ps1, answerGrid |-> g2]

undoRemove(prev, m) ==
    IF m.fromSlot # NULL
       THEN [pieces |-> [prev.pieces EXCEPT ![m.pieceId].currentSlot = m.fromSlot],
             answerGrid |-> WriteAt(prev.config, prev.answerGrid, prev.pieces,
                                    m.pieceId, m.fromSlot)]
       ELSE [pieces |-> prev.pieces, answerGrid |-> prev.answerGrid]

undoReplace(prev, m) ==
    LET config == prev.config
        g1 == ClearMoved(config, prev.answerGrid, m.pieceId, m.toSlot)
        g2 == IF m.replacedPieceId # NULL
                 THEN WriteAt(config, g1, prev.pieces, m.replacedPieceId, m.toSlot)
                 ELSE g1
        ps1 == IF m.replacedPieceId # NULL
                  THEN [prev.pieces EXCEPT ![m.replacedPieceId].currentSlot = m.toSlot]
                  ELSE prev.pieces
        ps2 == [ps1 EXCEPT ![m.pieceId].currentSlot = undoTargetSlot(m.fromSlot)]
        g3 == IF m.fromSlot # NULL
                 THEN WriteAt(config, g2, ps2, m.pieceId, m.fromSlot)
                 ELSE g2
    IN  IF m.toSlot # NULL
           THEN [pieces |-> ps2, answerGrid |-> g3]
           ELSE [pieces |-> prev.pieces, answerGrid |-> prev.answerGrid]

undoEffect(prev, m) ==
    CASE m.action = "place" -> undoPlace(prev, m)
      [] m.action = "remove" -> undoRemove(prev, m)
      [] m.action = "replace" -> undoReplace(prev, m)
      [] m.action = "rotate" ->
            [pieces |-> [prev.pieces EXCEPT ![m.pieceId].rotation =
                                    prev.pieces[m.pieceId].rotation - m.delta],
             answerGrid |-> prev.answerGrid]
      [] m.action = "flip" ->
            [pieces |-> [prev.pieces EXCEPT ![m.pieceId].isFlipped =
                                    ~prev.pieces[m.pieceId].isFlipped],
             answerGrid |-> prev.answerGrid]

undoState(prev) ==
    LET lastMove == Last(prev.history)
        e == undoEffect(prev, lastMove)
    IN  IF Len(prev.history) = 0 THEN prev
        ELSE [prev EXCEPT !.pieces = e.pieces,
                          !.moves = IF prev.moves - 1 > 0 THEN prev.moves - 1 ELSE 0,
                          !.history = Front(prev.history),
                          !.redoStack = Append(prev.redoStack, lastMove),
                          !.answerGrid = e.answerGrid]

\* redo: clear the cells of the source position that are not target cells
ClearSource(config, grid, p, fromSlot, toSlot, skipTarget) ==
    IF pieceShape(config) = "tetris" /\ Len(occupiedPositions(config, p)) > 0
       THEN LET targets == {c.slot : c \in CellsAt(config, p, toSlot)}
                sources == WriteSlots(config, grid, p, fromSlot)
            IN  [i \in DOMAIN grid |->
                    IF /\ i \in sources
                       /\ (skipTarget => i # toSlot)
                       /\ grid[i].id = p
                       /\ i \notin targets
                       THEN EmptySlot ELSE grid[i]]
       ELSE [grid EXCEPT ![fromSlot] = EmptySlot]

redoPlace(prev, m) ==
    LET config == prev.config
        g1 == IF m.toSlot # NULL
                 THEN WriteAt(config, prev.answerGrid, prev.pieces, m.pieceId, m.toSlot)
                 ELSE prev.answerGrid
        ps1 == IF m.toSlot # NULL
                  THEN [prev.pieces EXCEPT ![m.pieceId].currentSlot = m.toSlot]
                  ELSE prev.pieces
        g2 == IF m.fromSlot # NULL
                 THEN ClearSource(config, g1, m.pieceId, m.fromSlot, m.toSlot, TRUE)
                 ELSE g1
    IN  [pieces |-> ps1, answerGrid |-> g2]

redoRemove(prev, m) ==
    IF m.fromSlot # NULL
       THEN [pieces |-> [prev.pieces EXCEPT ![m.pieceId].currentSlot = NULL],
             answerGrid |-> ClearMoved(prev.config, prev.answerGrid,
                                       m.pieceId, m.fromSlot)]
       ELSE [pieces |-> prev.pieces, answerGrid |-> prev.answerGrid]

redoReplace(prev, m) ==
    LET config == prev.config
        g1 == IF m.replacedPieceId # NULL
                 THEN ClearMoved(config, prev.answerGrid, m.replacedPieceId, m.toSlot)
                 ELSE prev.answerGrid
        ps1 == IF m.replacedPieceId # NULL
                  THEN [prev.pieces EXCEPT ![m.replacedPieceId].currentSlot = NULL]
                  ELSE prev.pieces
        \* the entry is a copy of the piece as found before any update
        g2 == WriteAt(config, g1, prev.pieces, m.pieceId, m.toSlot)
        ps2 == [ps1 EXCEPT ![m.pieceId].currentSlot = m.toSlot]
        g3 == IF m.fromSlot # NULL
                 THEN ClearSource(config, g2, m.pieceId, m.fromSlot, m.toSlot, FALSE)
                 ELSE g2
    IN  IF m.toSlot # NULL
           THEN [pieces |-> ps2, answerGrid |-> g3]
           ELSE [pieces |-> prev.pieces, answerGrid |-> prev.answerGrid]

redoEffect(prev, m) ==
    CASE m.action = "place" -> redoPlace(prev, m)
      [] m.action = "remove" -> redoRemove(prev, m)
      [] m.action = "replace" -> redoReplace(prev, m)
      [] m.action = "rotate" ->
            [pieces |-> [prev.pieces EXCEPT ![m.pieceId].rotation =
                                    prev.pieces[m.pieceId].rotation + m.delta],
             answerGrid |-> prev.answerGrid]
      [] m.action = "flip" ->
            [pieces |-> [prev.pieces EXCEPT ![m.pieceId].isFlipped =
                                    ~prev.pieces[m.pieceId].isFlipped],
             answerGrid |-> prev.answerGrid]

redoState(prev) ==
    LET moveToRedo == Last(prev.redoStack)
        e == redoEffect(prev, moveToRedo)
    IN  IF Len(prev.redoStack) = 0 THEN prev
        ELSE [prev EXCEPT !.pieces = e.pieces,
                          !.moves = prev.moves + 1,
                          !.history = Append(prev.history, moveToRedo),
                          !.redoStack = Front(prev.redoStack),
                          !.answerGrid = e.answerGrid]

(***************************************************************************)
(* getHint                                                                 *)
(***************************************************************************)
\* the candidates: unplaced pieces and placed-but-wrong pieces
isAvailable(gs, p) ==
    \/ gs.pieces[p].currentSlot = NULL
    \/ gs.pieces[p].currentSlot # correctSlot(gs.config, p)
    \/ gs.pieces[p].rotation # 0
    \/ gs.pieces[p].isFlipped

\* a hint that treats every candidate as unplaced
neverWrongPosition(gs, p) == FALSE

isWrongPosition(gs, p) == gs.pieces[p].currentSlot # NULL

\* 1 = the slot lies on the border of the grid, 2 = interior
getSlotPriority(config, slotIndex) ==
    LET idx == IF pieceShape(config) = "triangle" THEN slotIndex \div 2 ELSE slotIndex
        row == idx \div Cols(config)
        col == idx % Cols(config)
    IN  IF row = 0 \/ row = Rows(config) - 1 \/ col = 0 \/ col = Cols(config) - 1
           THEN 1 ELSE 2

\* the comparator of availablePieces.sort as a rank (smaller sorts first)
hintRank(gs, p) ==
    2 * getSlotPriority(gs.config, correctSlot(gs.config, p))
      + (IF isWrongPosition(gs, p) THEN 0 ELSE 1)

\* availablePieces[0] after the stable sort: least rank, then piece order
hintTarget(gs) ==
    CHOOSE p \in DOMAIN gs.pieces :
        /\ isAvailable(gs, p)
        /\ \A q \in DOMAIN gs.pieces :
              isAvailable(gs, q) =>
                 \/ hintRank(gs, p) < hintRank(gs, q)
                 \/ hintRank(gs, p) = hintRank(gs, q) /\ p <= q

hasHint(gs) == \E p \in DOMAIN gs.pieces : isAvailable(gs, p)

\* a hint that leaves the occupant of the correct slot where it is
hintNoEvict(prev, target) == prev

\* first updater: evict the piece that occupies the target's correct slot
hintEvict(prev, target) ==
    LET occupyingPiece == prev.answerGrid[correctSlot(prev.config, target)]
        \* newAnswerGrid[occupyingPiece.currentSlot] = null; a null index
        \* touches no slot
        newAnswerGrid ==
            IF occupyingPiece.currentSlot \in DOMAIN prev.answerGrid
               THEN [prev.answerGrid EXCEPT ![occupyingPiece.currentSlot] = EmptySlot]
               ELSE prev.answerGrid
    IN  IF occupyingPiece.id # NULL /\ occupyingPiece.id # target
           THEN [prev EXCEPT !.pieces = [prev.pieces EXCEPT
                                            ![occupyingPiece.id].currentSlot = NULL],
                             !.answerGrid = newAnswerGrid]
           ELSE prev

\* clear, in the order of correctSlots, every piece in the way
RECURSIVE ClearConflicts(_, _, _, _)
ClearConflicts(grid, slotSeq, k, pieceId) ==
    IF k > Len(slotSeq) THEN grid
    ELSE LET e == grid[slotSeq[k]]
         IN  ClearConflicts(IF e.id # NULL /\ e.id # pieceId
                               THEN ClearId(grid, e.id) ELSE grid,
                            slotSeq, k + 1, pieceId)

hintPlaceTetris(prev, target) ==
    LET config == prev.config
        piece == prev.pieces[target]
        g1 == IF piece.currentSlot # NULL
                 THEN ClearId(prev.answerGrid, target) ELSE prev.answerGrid
        g2 == ClearConflicts(g1, correctSlots(config, target), 1, target)
        updatedPiece == [currentSlot |-> correctSlots(config, target)[1],
                         rotation |-> 0, isFlipped |-> FALSE]
        entry == [id |-> target, currentSlot |-> updatedPiece.currentSlot,
                  rotation |-> 0, isFlipped |-> FALSE]
        cs == {correctSlots(config, target)[k] : k \in DOMAIN correctSlots(config, target)}
        newAnswerGrid == [i \in DOMAIN g2 |-> IF i \in cs THEN entry ELSE g2[i]]
        updatedPieces ==
            [p \in DOMAIN prev.pieces |->
                IF p = target THEN updatedPiece
                ELSE IF \A i \in DOMAIN newAnswerGrid : newAnswerGrid[i].id # p
                        THEN [prev.pieces[p] EXCEPT !.currentSlot = NULL]
                        ELSE prev.pieces[p]]
        isComplete == checkPuzzleComplete(pieceShape(config), config, newAnswerGrid)
    IN  [prev EXCEPT !.pieces = updatedPieces,
                     !.answerGrid = newAnswerGrid,
                     !.moves = prev.moves + 1,
                     !.isCompleted = IF isComplete THEN TRUE ELSE prev.isCompleted,
                     !.endTime = IF isComplete THEN newDate(prev) ELSE prev.endTime]

hintPlaceGeneral(prev, target) ==
    LET config == prev.config
        piece == prev.pieces[target]
        g1 == IF piece.currentSlot # NULL
                 THEN [prev.answerGrid EXCEPT ![piece.currentSlot] = EmptySlot]
                 ELSE prev.answerGrid
        \* { ...piece, rotation: 0, isFlipped: false }: currentSlot is the old one
        entry == [id |-> target, currentSlot |-> piece.currentSlot,
                  rotation |-> 0, isFlipped |-> FALSE]
        newAnswerGrid == [g1 EXCEPT ![correctSlot(config, target)] = entry]
        updatedPieces == [prev.pieces EXCEPT ![target] =
                             [currentSlot |-> correctSlot(config, target),
                              rotation |-> 0, isFlipped |-> FALSE]]
        isComplete == checkPuzzleComplete(pieceShape(config), config, newAnswerGrid)
    IN  [prev EXCEPT !.pieces = updatedPieces,
                     !.answerGrid = newAnswerGrid,
                     !.moves = prev.moves + 1,
                     !.isCompleted = IF isComplete THEN TRUE ELSE prev.isCompleted,
                     !.endTime = IF isComplete THEN newDate(prev) ELSE prev.endTime]

\* second updater: put the target on its correct slot(s)
hintPlace(prev, target) ==
    IF pieceShape(prev.config) = "tetris" /\ Len(correctSlots(prev.config, target)) > 0
       THEN hintPlaceTetris(prev, target)
       ELSE hintPlaceGeneral(prev, target)

getHintState(gs) ==
    IF ~hasHint(gs) THEN gs
    ELSE hintPlace(hintEvict(gs, hintTarget(gs)), hintTarget(gs))

\* did this call of getHint find the puzzle complete (and stop the timer)
hintCompletes(gs) ==
    /\ hasHint(gs)
    /\ checkPuzzleComplete(pieceShape(gs.config), gs.config, getHintState(gs).answerGrid)

(***************************************************************************)
(* The IrregularPuzzleGame screen.  Its state hooks (puzzleConfig,         *)
(* answerGrid, history, redoHistory, moves, isComplete, isGameStarted) are *)
(* the fields of one record, and each handler is an operator from the      *)
(* previous record to the next.  Edge codes: 1 convex, 0 flat, -1 concave. *)
(*   puzzle : 1 x 2 grid; piece 1 belongs on slot 0 and has a convex right *)
(*            edge, piece 2 belongs on slot 1 and has a concave left edge  *)
(***************************************************************************)
IrregularRows == 1
IrregularCols == 2
IrregularSlots == 0 .. (IrregularRows * IrregularCols - 1)
IrregularPieceIds == 1 .. 2

\* the edge codes the generator gives piece p
generatedEdges(p) ==
    CASE p = 1 -> [up |-> 0, right |-> 1, down |-> 0, left |-> 0]
      [] p = 2 -> [up |-> 0, right |-> 0, down |-> 0, left |-> -1]

\* gridRow * cols + gridCol of piece p
homeSlot(p) == p - 1

\* generatePuzzle: patchedConfig.pieces
patchedPieces ==
    [p \in IrregularPieceIds |->
        [up |-> generatedEdges(p).up, right |-> generatedEdges(p).right,
         down |-> generatedEdges(p).down, left |-> generatedEdges(p).left,
         rotation |-> 0, flipX |-> FALSE, lastOperation |-> "null",
         rotateCount |-> 0, flipCount |-> 0,
         isCorrect |-> FALSE, currentSlot |-> NULL]]

\* the screen after generatePuzzle has resolved, before startGame
mountedScreen ==
    [isGameStarted |-> FALSE, pieces |-> patchedPieces, answerGrid |-> << >>,
     history |-> << >>, redoHistory |-> << >>, moves |-> 0, isComplete |-> FALSE,
     elapsedTime |-> 0]

IrregularEmpty ==
    [id |-> NULL, up |-> 0, right |-> 0, down |-> 0, left |-> 0,
     rotation |-> 0, flipX |-> FALSE]

\* the value copy { ...piece } written into a slot
IrregularCopy(ps, p) ==
    [id |-> p, up |-> ps[p].up, right |-> ps[p].right, down |-> ps[p].down,
     left |-> ps[p].left, rotation |-> ps[p].rotation, flipX |-> ps[p].flipX]

startGameState(prev) ==
    [prev EXCEPT !.isGameStarted = TRUE, !.isComplete = FALSE, !.moves = 0,
                 !.elapsedTime = 0,
                 !.answerGrid = [i \in IrregularSlots |-> IrregularEmpty]]

\* dirs = [dirs[3], dirs[0], dirs[1], dirs[2]], applied times times
RECURSIVE rotateDirs(_, _)
rotateDirs(e, times) ==
    IF times = 0 THEN e
    ELSE rotateDirs([e EXCEPT !.up = e.left, !.right = e.up,
                              !.down = e.right, !.left = e.down], times - 1)

\* a turn count that forgets the mirror: times = (direction + 4) % 4
rotateTimesUnmirrored(direction, flipX) == JsRem(direction + 4, 4)

\* times = direction; if (flipX) times = -times; times = (times + 4) % 4
rotateTimes(direction, flipX) ==
    JsRem((IF flipX THEN -direction ELSE direction) + 4, 4)

\* guard of handleRotatePiece
rotateBlocked(piece) == piece.lastOperation = "flip" /\ piece.flipCount < 2

\* guard of handleFlipX
flipBlocked(piece) ==
    piece.lastOperation = "rotate" /\ JsRem(piece.rotation, 360) # 0

\* a new operation that forgets to drop the undone moves
keptRedoHistory(prev) == prev.redoHistory

\* setRedoHistory([]) of a new operation
redoHistoryAfterNewOperation(prev) == << >>

handleRotatePieceState(prev, pieceId, direction) ==
    IF rotateBlocked(prev.pieces[pieceId]) THEN prev
    ELSE LET piece == prev.pieces[pieceId]
             turned == rotateDirs(piece, rotateTimes(direction, piece.flipX))
             realDirection == IF piece.flipX THEN -direction ELSE direction
         IN  [prev EXCEPT
                !.pieces[pieceId] =
                    [turned EXCEPT !.rotation = piece.rotation + 90 * realDirection,
                                   !.lastOperation = "rotate",
                                   !.rotateCount = piece.rotateCount + 1,
                                   !.flipCount = 0],
                !.history = Append(prev.history,
                    Move(pieceId, "rotate", NULL, NULL, NULL, 90 * direction)),
                !.redoHistory = redoHistoryAfterNewOperation(prev),
                !.moves = prev.moves + 1]

handleFlipXState(prev, pieceId) ==
    IF flipBlocked(prev.pieces[pieceId]) THEN prev
    ELSE LET piece == prev.pieces[pieceId]
         IN  [prev EXCEPT
                !.pieces[pieceId] =
                    [piece EXCEPT !.left = piece.right, !.right = piece.left,
                                  !.flipX = ~piece.flipX,
                                  !.lastOperation = "flip",
                                  !.flipCount = piece.flipCount + 1,
                                  !.rotateCount = 0],
                !.history = Append(prev.history,
                    Move(pieceId, "flip", NULL, NULL, NULL, NULL)),
                !.redoHistory = redoHistoryAfterNewOperation(prev),
                !.moves = prev.moves + 1]

\* (piece as any)[side]
edgeOf(e, side) ==
    CASE side = "up" -> e.up
      [] side = "right" -> e.right
      [] side = "down" -> e.down
      [] side = "left" -> e.left

directions ==
    { [dr |-> -1, dc |-> 0, self |-> "up", other |-> "down"],
      [dr |-> 0, dc |-> 1, self |-> "right", other |-> "left"],
      [dr |-> 1, dc |-> 0, self |-> "down", other |-> "up"],
      [dr |-> 0, dc |-> -1, self |-> "left", other |-> "right"] }

\* a validation loop that never compares the facing edges
noClash(selfVal, neighborVal) == FALSE

\* the pairs of (own edge, neighbour edge) the placement loop returns on
edgeClash(selfVal, neighborVal) ==
    \/ selfVal = 1 /\ neighborVal = 1
    \/ selfVal = 1 /\ neighborVal = 0
    \/ selfVal = 0 /\ neighborVal = 1

\* the validation loop of handlePiecePlacement returns early
edgeRejected(prev, pieceId, slotIndex) ==
    LET row == slotIndex \div IrregularCols
        col == slotIndex % IrregularCols
    IN  \E dir \in directions :
           LET nRow == row + dir.dr
               nCol == col + dir.dc
               selfVal == edgeOf(prev.pieces[pieceId], dir.self)
           IN  IF nRow >= 0 /\ nRow < IrregularRows /\ nCol >= 0 /\ nCol < IrregularCols
                  THEN LET n == prev.answerGrid[nRow * IrregularCols + nCol]
                       IN  edgeClash(selfVal,
                                     IF n.id # NULL THEN edgeOf(n, dir.other) ELSE -1)
                  ELSE selfVal = 1

\* existingPieceInSlot && existingPieceInSlot.id === pieceId
irregularSelfSlot(prev, pieceId, slotIndex) ==
    prev.answerGrid[slotIndex].id = pieceId

\* answerGrid.findIndex(slot => slot?.id === pieceId), NULL for -1
findIndex(grid, pieceId) ==
    IF \E i \in DOMAIN grid : grid[i].id = pieceId
       THEN MinOf({i \in DOMAIN grid : grid[i].id = pieceId})
       ELSE NULL

\* allCorrect of handlePiecePlacement
allCorrect(grid) ==
    \A idx \in DOMAIN grid :
        /\ grid[idx].id # NULL
        /\ homeSlot(grid[idx].id) = idx
        /\ JsRem(grid[idx].rotation, 360) = JsRem(0, 360)
        /\ grid[idx].flipX = FALSE

handlePiecePlacementRejected(prev, pieceId, slotIndex) ==
    \/ irregularSelfSlot(prev, pieceId, slotIndex)
    \/ edgeRejected(prev, pieceId, slotIndex)

handlePiecePlacementState(prev, pieceId, slotIndex) ==
    IF handlePiecePlacementRejected(prev, pieceId, slotIndex) THEN prev
    ELSE LET existingPieceId == prev.answerGrid[slotIndex].id
             currentSlotIndex == findIndex(prev.answerGrid, pieceId)
             newAnswerGrid ==
                 [i \in DOMAIN prev.answerGrid |->
                     IF i = slotIndex THEN IrregularCopy(prev.pieces, pieceId)
                     ELSE IF i = currentSlotIndex THEN IrregularEmpty
                     ELSE prev.answerGrid[i]]
         IN  [prev EXCEPT
                !.pieces = [p \in DOMAIN prev.pieces |->
                    IF p = pieceId THEN [prev.pieces[p] EXCEPT !.isCorrect = TRUE]
                    ELSE IF p = existingPieceId
                         THEN [prev.pieces[p] EXCEPT !.isCorrect = FALSE]
                    ELSE prev.pieces[p]],
                !.answerGrid = newAnswerGrid,
                !.isComplete = IF allCorrect(newAnswerGrid) THEN TRUE
                               ELSE prev.isComplete,
                !.history = Append(prev.history,
                    Move(pieceId,
                         IF existingPieceId # NULL THEN "replace" ELSE "place",
                         currentSlotIndex, slotIndex, existingPieceId, NULL)),
                !.redoHistory = redoHistoryAfterNewOperation(prev),
                !.moves = prev.moves + 1]

handlePieceRemovalState(prev, pieceId) ==
    LET slotIndex == findIndex(prev.answerGrid, pieceId)
    IN  IF slotIndex = NULL THEN prev
        ELSE [prev EXCEPT
                !.pieces[pieceId].isCorrect = FALSE,
                !.answerGrid[slotIndex] = IrregularEmpty,
                !.history = Append(prev.history,
                    Move(pieceId, "remove", slotIndex, NULL, NULL, NULL)),
                !.redoHistory = redoHistoryAfterNewOperation(prev),
                !.moves = prev.moves + 1]

\* Math.sign
Sign(x) == IF x > 0 THEN 1 ELSE IF x < 0 THEN -1 ELSE 0

Max0(x) == IF x < 0 THEN 0 ELSE x

\* the switch of handleUndo: the inverse effect of lastMove on grid and pieces
handleUndoEffect(prev, lastMove) ==
    LET p == lastMove.pieceId
        piece == prev.pieces[p]
    IN  CASE lastMove.action = "place" ->
               [prev EXCEPT
                  !.answerGrid = [i \in DOMAIN prev.answerGrid |->
                      IF i = lastMove.fromSlot THEN IrregularCopy(prev.pieces, p)
                      ELSE IF i = lastMove.toSlot THEN IrregularEmpty
                      ELSE prev.answerGrid[i]],
                  !.pieces[p] = [piece EXCEPT
                      !.isCorrect = (lastMove.fromSlot # NULL),
                      !.currentSlot = lastMove.fromSlot]]
          [] lastMove.action = "remove" ->
               [prev EXCEPT !.answerGrid[lastMove.fromSlot] =
                                IrregularCopy(prev.pieces, p)]
          [] lastMove.action = "rotate" ->
               [prev EXCEPT !.pieces[p] =
                   [rotateDirs(piece,
                        rotateTimes(-Sign(lastMove.delta), piece.flipX))
                    EXCEPT !.rotation = piece.rotation - lastMove.delta,
                           !.lastOperation = "null",
                           !.rotateCount = Max0(piece.rotateCount - 1)]]
          [] lastMove.action = "flip" ->
               [prev EXCEPT !.pieces[p] =
                   [piece EXCEPT !.left = piece.right, !.right = piece.left,
                                 !.flipX = ~piece.flipX,
                                 !.lastOperation = "null",
                                 !.flipCount = Max0(piece.flipCount - 1)]]
          [] lastMove.action = "replace" ->
               [prev EXCEPT !.answerGrid[lastMove.toSlot] =
                                IrregularCopy(prev.pieces, lastMove.replacedPieceId)]

handleUndoState(prev) ==
    IF Len(prev.history) = 0 THEN prev
    ELSE LET lastMove == Last(prev.history)
         IN  [handleUndoEffect(prev, lastMove) EXCEPT
                !.redoHistory = Append(prev.redoHistory, lastMove),
                !.history = Front(prev.history),
                !.moves = Max0(prev.moves - 1)]

\* the switch of handleRedo: the forward effect of nextMove on grid and pieces
handleRedoEffect(prev, nextMove) ==
    LET p == nextMove.pieceId
        piece == prev.pieces[p]
    IN  CASE nextMove.action = "place" ->
               [prev EXCEPT
                  !.answerGrid = [i \in DOMAIN prev.answerGrid |->
                      IF i = nextMove.toSlot THEN IrregularCopy(prev.pieces, p)
                      ELSE IF i = nextMove.fromSlot THEN IrregularEmpty
                      ELSE prev.answerGrid[i]],
                  !.pieces[p] = [piece EXCEPT !.isCorrect = TRUE,
                                              !.currentSlot = nextMove.toSlot]]
          [] nextMove.action = "remove" ->
               [prev EXCEPT
                  !.answerGrid[nextMove.fromSlot] = IrregularEmpty,
                  !.pieces[p] = [piece EXCEPT !.isCorrect = FALSE,
                                              !.currentSlot = NULL]]
          [] nextMove.action = "rotate" ->
               [prev EXCEPT !.pieces[p] =
                   [rotateDirs(piece,
                        rotateTimes(Sign(nextMove.delta), piece.flipX))
                    EXCEPT !.rotation = piece.rotation + nextMove.delta,
                           !.lastOperation = "rotate",
                           !.rotateCount = piece.rotateCount + 1,
                           !.flipCount = 0]]
          [] nextMove.action = "flip" ->
               [prev EXCEPT !.pieces[p] =
                   [piece EXCEPT !.left = piece.right, !.right = piece.left,
                                 !.flipX = ~piece.flipX,
                                 !.lastOperation = "flip",
                                 !.flipCount = piece.flipCount + 1,
                                 !.rotateCount = 0]]
          [] nextMove.action = "replace" ->
               [prev EXCEPT
                  !.answerGrid[nextMove.toSlot] = IrregularCopy(prev.pieces, p),
                  !.pieces = [q \in DOMAIN prev.pieces |->
                      IF q = p THEN [prev.pieces[q] EXCEPT
                                        !.isCorrect = TRUE,
                                        !.currentSlot = nextMove.toSlot]
                      ELSE IF q = nextMove.replacedPieceId
                           THEN [prev.pieces[q] EXCEPT !.isCorrect = FALSE,
                                                       !.currentSlot = NULL]
                      ELSE prev.pieces[q]]]

handleRedoState(prev) ==
    IF Len(prev.redoHistory) = 0 THEN prev
    ELSE LET nextMove == Last(prev.redoHistory)
         IN  [handleRedoEffect(prev, nextMove) EXCEPT
                !.redoHistory = Front(prev.redoHistory),
                !.history = Append(prev.history, nextMove),
                !.moves = prev.moves + 1]

\* incorrectPieces of the screen's getHint
incorrectPieces(prev) == {p \in DOMAIN prev.pieces : ~prev.pieces[p].isCorrect}

(***************************************************************************)
(* The observable state the round-trip properties compare.                 *)
(***************************************************************************)
Occupancy(gs) == [i \in DOMAIN gs.answerGrid |-> gs.answerGrid[i].id]

Obs(gs) == [grid |-> Occupancy(gs), pieces |-> gs.pieces, moves |-> gs.moves]

(***************************************************************************)
(* Actions of usePuzzleGame                                                *)
(***************************************************************************)
Started == gameState # NoGame

\* room left, within the bound, for one more state-changing call
CanAct == ops < MaxOps

\* the call counter after a call that led from gameState to next
Counted(next) == IF next # gameState THEN ops + 1 ELSE ops

\* if (timerRef.current) clearInterval(timerRef.current)
ClearedRef == IF timerRef = "live" THEN "cleared" ELSE timerRef
ClearedIntervals == IF timerRef = "live" THEN intervals - 1 ELSE intervals

startTimer ==
    /\ timerRef' = "live"
    /\ intervals' = ClearedIntervals + 1

initializeGame(config) ==
    /\ mounted
    /\ gameState' = initialState(config, generatedPieces(config))
    /\ timer' = 0
    /\ startTimer
    /\ ops' = 0
    /\ UNCHANGED <<selectedPiece, irregular, saved, mounted, hintTimeouts>>

\* initializeGame(gameState.config): the pieces are the current ones
resetGameState(prev) == initialState(prev.config, prev.pieces)

resetGame ==
    /\ Started
    /\ mounted
    /\ CanAct
    /\ gameState' = resetGameState(gameState)
    /\ timer' = 0
    /\ startTimer
    /\ ops' = ops + 1
    /\ UNCHANGED <<selectedPiece, irregular, saved, mounted, hintTimeouts>>

\* did this call of placePieceToSlot find the puzzle complete
placeCompletes(prev, pieceId, targetSlot) ==
    /\ ~placeRejected(prev, pieceId, targetSlot)
    /\ IF UsesTetrisBranch(prev, pieceId)
          THEN NoGaps(placePieceToSlotState(prev, pieceId, targetSlot).answerGrid)
          ELSE checkPuzzleComplete("none", prev.config,
                   placePieceToSlotState(prev, pieceId, targetSlot).answerGrid)

\* setSelectedPiece(null) follows setGameState whatever the updater returned
selectedAfterPlace(prev, selected, pieceId, targetSlot) == NULL

placePieceToSlot(pieceId, targetSlot) ==
    /\ Started
    /\ mounted
    /\ LET next == placePieceToSlotState(gameState, pieceId, targetSlot)
       IN  /\ next # gameState => CanAct
           /\ gameState' = next
           /\ ops' = Counted(next)
    /\ IF placeCompletes(gameState, pieceId, targetSlot)
          THEN timerRef' = ClearedRef /\ intervals' = ClearedIntervals
          ELSE UNCHANGED <<timerRef, intervals>>
    /\ selectedPiece' = selectedAfterPlace(gameState, selectedPiece, pieceId, targetSlot)
    /\ UNCHANGED irregular
    /\ UNCHANGED <<timer, saved, mounted, hintTimeouts>>

removePieceFromSlot(pieceId) ==
    /\ Started
    /\ mounted
    /\ LET next == removePieceFromSlotState(gameState, pieceId)
       IN  /\ next # gameState => CanAct
           /\ gameState' = next
           /\ ops' = Counted(next)
    /\ selectedPiece' = IF selectedPiece = pieceId THEN NULL ELSE selectedPiece
    /\ UNCHANGED <<timerRef, intervals, irregular>>
    /\ UNCHANGED <<timer, saved, mounted, hintTimeouts>>

rotatePiece(pieceId, delta) ==
    /\ Started
    /\ mounted
    /\ CanAct
    /\ gameState' = rotatePieceState(gameState, pieceId, delta)
    /\ ops' = ops + 1
    /\ UNCHANGED <<selectedPiece, timerRef, intervals, irregular>>
    /\ UNCHANGED <<timer, saved, mounted, hintTimeouts>>

flipPiece(pieceId) ==
    /\ Started
    /\ mounted
    /\ CanAct
    /\ gameState' = flipPieceState(gameState, pieceId)
    /\ ops' = ops + 1
    /\ UNCHANGED <<selectedPiece, timerRef, intervals, irregular>>
    /\ UNCHANGED <<timer, saved, mounted, hintTimeouts>>

getHint ==
    /\ Started
    /\ mounted
    /\ hasHint(gameState) => CanAct
    /\ gameState' = getHintState(gameState)
    /\ ops' = Counted(getHintState(gameState))
    /\ IF hintCompletes(gameState)
          THEN timerRef' = "null" /\ intervals' = ClearedIntervals
          ELSE UNCHANGED <<timerRef, intervals>>
    /\ selectedPiece' = IF hasHint(gameState) THEN hintTarget(gameState) ELSE selectedPiece
    /\ hintTimeouts' = IF hasHint(gameState)
                          THEN Append(hintTimeouts, hintTarget(gameState))
                          ELSE hintTimeouts
    /\ UNCHANGED irregular
    /\ UNCHANGED <<timer, saved, mounted>>

undo ==
    /\ Started
    /\ mounted
    /\ Len(gameState.history) > 0 => CanAct
    /\ gameState' = undoState(gameState)
    /\ ops' = Counted(undoState(gameState))
    /\ UNCHANGED <<selectedPiece, timerRef, intervals, irregular>>
    /\ UNCHANGED <<timer, saved, mounted, hintTimeouts>>

redo ==
    /\ Started
    /\ mounted
    /\ Len(gameState.redoStack) > 0 => CanAct
    /\ gameState' = redoState(gameState)
    /\ ops' = Counted(redoState(gameState))
    /\ UNCHANGED <<selectedPiece, timerRef, intervals, irregular>>
    /\ UNCHANGED <<timer, saved, mounted, hintTimeouts>>

(***************************************************************************)
(* Actions of the IrregularPuzzleGame screen                               *)
(***************************************************************************)
IrregularStarted == irregular.isGameStarted

\* the call counter after a call that led from irregular to next
CountedIrregular(next) == IF next # irregular THEN ops + 1 ELSE ops

startGame ==
    /\ irregular' = startGameState(irregular)
    /\ UNCHANGED <<gameState, selectedPiece, timerRef, intervals, ops>>
    /\ UNCHANGED <<timer, saved, mounted, hintTimeouts>>

handlePiecePlacement(pieceId, slotIndex) ==
    /\ IrregularStarted
    /\ LET next == handlePiecePlacementState(irregular, pieceId, slotIndex)
       IN  /\ next # irregular => CanAct
           /\ irregular' = next
           /\ ops' = CountedIrregular(next)
    /\ selectedPiece' =
          IF handlePiecePlacementRejected(irregular, pieceId, slotIndex)
             THEN selectedPiece ELSE NULL
    /\ UNCHANGED <<gameState, timerRef, intervals>>
    /\ UNCHANGED <<timer, saved, mounted, hintTimeouts>>

handlePieceRemoval(pieceId) ==
    /\ IrregularStarted
    /\ LET next == handlePieceRemovalState(irregular, pieceId)
       IN  /\ next # irregular => CanAct
           /\ irregular' = next
           /\ ops' = CountedIrregular(next)
    /\ UNCHANGED <<gameState, selectedPiece, timerRef, intervals>>
    /\ UNCHANGED <<timer, saved, mounted, hintTimeouts>>

handleRotatePiece(pieceId, direction) ==
    /\ IrregularStarted
    /\ LET next == handleRotatePieceState(irregular, pieceId, direction)
       IN  /\ next # irregular => CanAct
           /\ irregular' = next
           /\ ops' = CountedIrregular(next)
    /\ UNCHANGED <<gameState, selectedPiece, timerRef, intervals>>
    /\ UNCHANGED <<timer, saved, mounted, hintTimeouts>>

handleFlipX(pieceId) ==
    /\ IrregularStarted
    /\ LET next == handleFlipXState(irregular, pieceId)
       IN  /\ next # irregular => CanAct
           /\ irregular' = next
           /\ ops' = CountedIrregular(next)
    /\ UNCHANGED <<gameState, selectedPiece, timerRef, intervals>>
    /\ UNCHANGED <<timer, saved, mounted, hintTimeouts>>

handleUndo ==
    /\ IrregularStarted
    /\ Len(irregular.history) > 0 => CanAct
    /\ irregular' = handleUndoState(irregular)
    /\ ops' = CountedIrregular(handleUndoState(irregular))
    /\ UNCHANGED <<gameState, selectedPiece, timerRef, intervals>>
    /\ UNCHANGED <<timer, saved, mounted, hintTimeouts>>

handleRedo ==
    /\ IrregularStarted
    /\ Len(irregular.redoHistory) > 0 => CanAct
    /\ irregular' = handleRedoState(irregular)
    /\ ops' = CountedIrregular(handleRedoState(irregular))
    /\ UNCHANGED <<gameState, selectedPiece, timerRef, intervals>>
    /\ UNCHANGED <<timer, saved, mounted, hintTimeouts>>

\* getHint of the screen: a random unplaced piece goes to its own slot
irregularGetHint(randomPiece) ==
    /\ IrregularStarted
    /\ randomPiece \in incorrectPieces(irregular)
    /\ CanAct
    /\ irregular' = handlePiecePlacementState(irregular, randomPiece,
                                              homeSlot(randomPiece))
    /\ ops' = ops + 1
    /\ selectedPiece' = randomPiece
    /\ hintTimeouts' = Append(hintTimeouts, randomPiece)
    /\ UNCHANGED <<gameState, timerRef, intervals>>
    /\ UNCHANGED <<timer, saved, mounted>>



\* the piece ids and slot indexes a caller can name
PieceSet == IF Started THEN DOMAIN gameState.pieces ELSE {}
SlotSet == IF Started THEN DOMAIN gameState.answerGrid ELSE {}

Init ==
    /\ gameState = NoGame
    /\ selectedPiece = NULL
    /\ timerRef = "null"
    /\ intervals = 0
    /\ irregular = mountedScreen
    /\ ops = 0
    /\ timer = 0
    /\ saved = NoGame
    /\ mounted = TRUE
    /\ hintTimeouts = << >>

Next ==
    \/ ~Started /\ ~IrregularStarted /\ \E config \in Configs : initializeGame(config)
    \/ \E p \in PieceSet, s \in SlotSet :
          placePieceToSlot(p, s)
    \/ \E p \in PieceSet : removePieceFromSlot(p)
    \/ \E p \in PieceSet, d \in Deltas : rotatePiece(p, d)
    \/ \E p \in PieceSet : flipPiece(p)
    \/ getHint
    \/ undo
    \/ redo
    \/ resetGame
    \/ ~Started /\ ~IrregularStarted /\ startGame
    \/ \E p \in IrregularPieceIds, s \in IrregularSlots : handlePiecePlacement(p, s)
    \/ \E p \in IrregularPieceIds : handlePieceRemoval(p)
    \/ \E p \in IrregularPieceIds, d \in {1, -1} : handleRotatePiece(p, d)
    \/ \E p \in IrregularPieceIds : handleFlipX(p)
    \/ handleUndo
    \/ handleRedo
    \/ \E p \in IrregularPieceIds : irregularGetHint(p)

Spec == Init /\ [][Next]_vars

(***************************************************************************)
(* Boards.  A second specification for the properties of a single call on  *)
(* a larger board: the board is set up by playing placePieceToSlot and     *)
(* rotatePiece calls from the initial state of a configuration, piece by   *)
(* piece, and then one handler is called on it.  All pieces go to their    *)
(* correct position except at most MaxOff of them, which are left in       *)
(* staging or put on the correct slot of a neighbouring piece, and may be  *)
(* turned by 90 degrees.                                                   *)
(***************************************************************************)
MaxOff == 2         \* pieces of a board that are not simply put in place

\* the slot a piece is dropped on to cover its correct position
homeAnchor(config, p) ==
    IF pieceShape(config) = "tetris"
       THEN CHOOSE s \in Slots(config) :
               {c.slot : c \in CellsAt(config, p, s)}
                  = {correctSlots(config, p)[k] : k \in DOMAIN correctSlots(config, p)}
       ELSE correctSlot(config, p)

nextPiece(config, p) == (p % Cardinality(PieceIds(config))) + 1

prevPiece(config, p) ==
    ((p + Cardinality(PieceIds(config)) - 2) % Cardinality(PieceIds(config))) + 1

\* what the set-up may do with a piece that is not simply put in place:
\* leave it in staging or drop it on its own, the next or the previous
\* piece's position, and turn it or not
OffChoices == [at : {"staging", "own", "next", "prev"}, turned : BOOLEAN]

\* the slot an off choice names for piece p
choiceSlot(config, p, at) ==
    CASE at = "staging" -> NULL
      [] at = "own" -> homeAnchor(config, p)
      [] at = "next" -> homeAnchor(config, nextPiece(config, p))
      [] at = "prev" -> homeAnchor(config, prevPiece(config, p))

\* the plans of a set-up: for every piece, where it is dropped and whether
\* it is turned afterwards
Plans(config) ==
    UNION { { [p \in PieceIds(config) |->
                  IF p \in off
                     THEN [slot |-> choiceSlot(config, p, d[p].at),
                           turned |-> d[p].turned]
                     ELSE [slot |-> homeAnchor(config, p), turned |-> FALSE]]
              : d \in [off -> OffChoices] }
            : off \in {S \in SUBSET PieceIds(config) : Cardinality(S) <= MaxOff} }

\* play the plan from piece p on: placePieceToSlot, then rotatePiece
RECURSIVE SetUp(_, _, _)
SetUp(gs, plan, p) ==
    IF p \notin DOMAIN gs.pieces THEN gs
    ELSE LET placed == IF plan[p].slot = NULL THEN gs
                       ELSE placePieceToSlotState(gs, p, plan[p].slot)
             turned == IF plan[p].turned THEN rotatePieceState(placed, p, 90)
                       ELSE placed
         IN  SetUp(turned, plan, p + 1)

Boards(config) ==
    {SetUp(initialState(config, generatedPieces(config)), plan, 1) : plan \in Plans(config)}

\* initializeGame has started the timer; a set-up that completed the puzzle
\* has cleared it
InitBoards ==
    /\ \E config \in BoardConfigs : gameState \in Boards(config)
    /\ selectedPiece = NULL
    /\ timerRef = IF gameState.isCompleted THEN "cleared" ELSE "live"
    /\ intervals = IF gameState.isCompleted THEN 0 ELSE 1
    /\ irregular = mountedScreen
    /\ ops = 0
    /\ timer = 0
    /\ saved = NoGame
    /\ mounted = TRUE
    /\ hintTimeouts = << >>

\* one call on the board
NextBoards ==
    \/ ops = 0 /\ getHint
    \/ ops = 0 /\ pieceShape(gameState.config) = "tetris"
               /\ \E p \in PieceSet, s \in SlotSet : placePieceToSlot(p, s)

SpecBoards == InitBoards /\ [][NextBoards]_vars

(***************************************************************************)
(* The timer, saving and loading, and teardown.  A third specification     *)
(* plays the handlers of both components together with the interval        *)
(* callbacks, saveGame / loadGame, the preloadedGameState effect and the   *)
(* unmounting of the hook.  The save service is an external collaborator:  *)
(* it hands back the GameState it was given, and a record written in the   *)
(* legacy format has no redoStack field.  The component that uses the hook *)
(* can also keep a GameState the hook returned and hand it back later as   *)
(* preloadedGameState.                                                     *)
(***************************************************************************)
MaxTime == 2        \* seconds a session is followed for

TimerConfigs == {"square"}

\* a callback that does not look at the completion flag
tickIgnoresCompletion(prevState, newTime) ==
    IF prevState # NoGame
       THEN [prevState EXCEPT !.elapsedTime = newTime]
       ELSE prevState

\* a callback that builds a fresh state around the new time
tickRebuilds(prevState, newTime) ==
    IF prevState # NoGame /\ ~prevState.isCompleted
       THEN [prevState EXCEPT !.elapsedTime = newTime, !.redoStack = << >>]
       ELSE prevState

\* the interval callback's setGameState updater
tickState(prevState, newTime) ==
    IF prevState # NoGame /\ ~prevState.isCompleted
       THEN [prevState EXCEPT !.elapsedTime = newTime]
       ELSE prevState

\* one firing of an interval callback started by the hook
tick ==
    /\ intervals > 0
    /\ timer < MaxTime
    /\ timer' = timer + 1
    /\ gameState' = tickState(gameState, timer + 1)
    /\ UNCHANGED <<selectedPiece, timerRef, intervals, irregular, ops, saved, mounted, hintTimeouts>>

\* one firing of the interval of the screen's timer effect, which exists
\* while gameStartTime && !isComplete && isGameStarted; elapsed is computed
\* from the wall clock
irregularTick ==
    /\ IrregularStarted
    /\ ~irregular.isComplete
    /\ \E elapsed \in (irregular.elapsedTime + 1) .. MaxTime :
          irregular' = [irregular EXCEPT !.elapsedTime = elapsed]
    /\ UNCHANGED <<gameState, selectedPiece, timerRef, intervals, ops, timer,
                   saved, mounted, hintTimeouts>>

\* a persisted GameState in the legacy format
withoutRedoStack(gs) == [f \in DOMAIN gs \ {"redoStack"} |-> gs[f]]

\* a load that takes the persisted record as it is
stateAsPersisted(s) == s

\* { ...state, redoStack: state.redoStack || [] }
stateWithRedoStack(s) ==
    [f \in DOMAIN s \cup {"redoStack"} |->
        IF f = "redoStack"
           THEN IF "redoStack" \in DOMAIN s THEN s.redoStack ELSE << >>
           ELSE s[f]]

\* saveGame: refused without a game and for a completed game
saveGame(legacy) ==
    /\ Started
    /\ mounted
    /\ CanAct
    /\ ~gameState.isCompleted
    /\ saved' = [state |-> IF legacy THEN withoutRedoStack(gameState) ELSE gameState,
                 origin |-> "saveGame"]
    /\ saved' # saved
    /\ ops' = ops + 1
    /\ UNCHANGED <<gameState, selectedPiece, timerRef, intervals, irregular,
                   timer, mounted, hintTimeouts>>

\* the component that uses the hook keeps the gameState the hook returned
keepGameState ==
    /\ Started
    /\ mounted
    /\ CanAct
    /\ saved' = [state |-> gameState, origin |-> "caller"]
    /\ saved' # saved
    /\ ops' = ops + 1
    /\ UNCHANGED <<gameState, selectedPiece, timerRef, intervals, irregular,
                   timer, mounted, hintTimeouts>>

\* room left for restoring a state: a restore may follow the last counted call
CanRestore == ops <= MaxOps

\* room left, in a session that is followed for its timer, for one more call
\* of a move handler
CanPlay == ops < MaxOps - 1

\* the body shared by loadGame and the preloadedGameState effect
restoreGame(s) ==
    /\ gameState' = stateWithRedoStack(s)
    /\ selectedPiece' = NULL
    /\ timer' = s.elapsedTime
    /\ IF ~s.isCompleted THEN startTimer ELSE UNCHANGED <<timerRef, intervals>>
    /\ ops' = ops + 1
    /\ UNCHANGED <<irregular, saved, mounted, hintTimeouts>>

loadGame ==
    /\ mounted
    /\ CanRestore
    /\ saved # NoGame
    /\ saved.origin = "saveGame"
    /\ restoreGame(saved.state)

preloadedGameStateEffect ==
    /\ mounted
    /\ CanRestore
    /\ saved # NoGame
    /\ restoreGame(saved.state)

\* the cleanup of the hook's last effect
unmount ==
    /\ Started
    /\ mounted
    /\ mounted' = FALSE
    /\ timerRef' = ClearedRef
    /\ intervals' = ClearedIntervals
    /\ UNCHANGED <<gameState, selectedPiece, irregular, ops, timer, saved, hintTimeouts>>

\* handleRestart of the screen, with the generatePuzzle() it starts taken
\* to its setPuzzleConfig(patchedConfig); history and redoHistory are not
\* among the hooks it sets
handleRestartState(prev) ==
    [prev EXCEPT !.isGameStarted = FALSE, !.isComplete = FALSE,
                 !.elapsedTime = 0, !.moves = 0, !.answerGrid = << >>,
                 !.pieces = patchedPieces]

handleRestart ==
    /\ IrregularStarted
    /\ CanAct
    /\ irregular' = handleRestartState(irregular)
    /\ selectedPiece' = NULL
    /\ ops' = ops + 1
    /\ UNCHANGED <<gameState, timerRef, intervals, timer, saved, mounted, hintTimeouts>>

NextTimer ==
    \/ ~Started /\ irregular = mountedScreen /\ \E config \in TimerConfigs : initializeGame(config)
    \/ CanPlay /\ \E p \in PieceSet, s \in SlotSet : placePieceToSlot(p, s)
    \/ CanPlay /\ \E p \in PieceSet : removePieceFromSlot(p)
    \/ CanPlay /\ \E p \in PieceSet, d \in Deltas : rotatePiece(p, d)
    \/ CanPlay /\ \E p \in PieceSet : flipPiece(p)
    \/ CanPlay /\ getHint
    \/ CanPlay /\ undo
    \/ CanPlay /\ redo
    \/ resetGame
    \/ tick
    \/ \E legacy \in BOOLEAN : saveGame(legacy)
    \/ keepGameState
    \/ loadGame
    \/ preloadedGameStateEffect
    \/ unmount
    \/ ~Started /\ ~IrregularStarted /\ startGame
    \/ CanPlay /\ \E p \in IrregularPieceIds, s \in IrregularSlots : handlePiecePlacement(p, s)
    \/ CanPlay /\ \E p \in IrregularPieceIds : handlePieceRemoval(p)
    \/ CanPlay /\ \E p \in IrregularPieceIds, d \in {1, -1} : handleRotatePiece(p, d)
    \/ CanPlay /\ \E p \in IrregularPieceIds : handleFlipX(p)
    \/ CanPlay /\ handleUndo
    \/ CanPlay /\ handleRedo
    \/ CanPlay /\ \E p \in IrregularPieceIds : irregularGetHint(p)
    \/ irregularTick
    \/ handleRestart

SpecTimer == Init /\ [][NextTimer]_vars

(***************************************************************************)
(* The highlight of a hint.  A fourth specification plays hints, placements *)
(* and selections of both components together with the delayed callbacks   *)
(* that getHint schedules.                                                 *)
(***************************************************************************)
HintConfigs == {"square", "triangle"}

\* the callback of getHint's setTimeout, in either component; callbacks of
\* equal delay run in the order they were scheduled
hintTimeout ==
    /\ hintTimeouts # << >>
    /\ hintTimeouts' = Tail(hintTimeouts)
    /\ selectedPiece' = NULL
    /\ UNCHANGED <<gameState, timerRef, intervals, irregular, ops>>
    /\ UNCHANGED <<timer, saved, mounted>>

\* handlePieceSelect, in either component
handlePieceSelect(pieceId) ==
    /\ Started \/ IrregularStarted
    /\ selectedPiece' = pieceId
    /\ UNCHANGED <<gameState, timerRef, intervals, irregular, ops>>
    /\ UNCHANGED <<timer, saved, mounted, hintTimeouts>>

NextHint ==
    \/ ~Started /\ ~IrregularStarted
           /\ \E config \in HintConfigs : initializeGame(config)
    \/ ~Started /\ ~IrregularStarted /\ startGame
    \/ getHint
    \/ \E p \in IrregularPieceIds : irregularGetHint(p)
    \/ \E p \in PieceSet, s \in SlotSet : placePieceToSlot(p, s)
    \/ \E p \in IrregularPieceIds, s \in IrregularSlots : handlePiecePlacement(p, s)
    \/ \E p \in PieceSet \cup {NULL} : handlePieceSelect(p)
    \/ IrregularStarted /\ \E p \in IrregularPieceIds : handlePieceSelect(p)
    \/ hintTimeout

SpecHint == Init /\ [][NextHint]_vars

(***************************************************************************)
(* Properties.  The handlers are pure updaters, so a property of "the      *)
(* state after calling h in state S" is stated on every reachable S by     *)
(* applying the updater of h to S.                                         *)
(***************************************************************************)
\* the states one state-changing place / remove / rotate / flip leads to
NewOperations(gs) ==
    ( {placePieceToSlotState(gs, p, s) :
           p \in DOMAIN gs.pieces, s \in DOMAIN gs.answerGrid}
      \cup {removePieceFromSlotState(gs, p) : p \in DOMAIN gs.pieces}
      \cup {rotatePieceState(gs, p, d) : p \in DOMAIN gs.pieces, d \in Deltas}
      \cup {flipPieceState(gs, p) : p \in DOMAIN gs.pieces} ) \ {gs}

\* C1: round trip.  From every state S reached after initializeGame, one
\* successful place / remove / rotate / flip followed by one undo, and two
\* of them followed by two undos, give back the grid occupancy, every
\* piece's currentSlot, rotation and isFlipped, and the move counter of S.
C1_UndoRoundTrip ==
    Started =>
        \A s1 \in NewOperations(gameState) :
            /\ Obs(undoState(s1)) = Obs(gameState)
            /\ \A s2 \in NewOperations(s1) :
                  Obs(undoState(undoState(s2))) = Obs(gameState)

\* C2: grid / piece consistency in the square and triangle families.  In
\* every reachable state, slot i holds piece P's id exactly when
\* P.currentSlot = i.
C2_GridPieceConsistency ==
    (Started /\ pieceShape(gameState.config) \in {"square", "triangle"}) =>
        \A p \in DOMAIN gameState.pieces, i \in DOMAIN gameState.answerGrid :
            gameState.answerGrid[i].id = p <=> gameState.pieces[p].currentSlot = i

\* grid, pieces or move counter differ
Changed(a, b) ==
    a.answerGrid # b.answerGrid \/ a.pieces # b.pieces \/ a.moves # b.moves

\* the result of every place / remove / rotate / flip call of the hook on gs
OperationResults(gs) ==
    {placePieceToSlotState(gs, p, s) :
         p \in DOMAIN gs.pieces, s \in DOMAIN gs.answerGrid}
    \cup {removePieceFromSlotState(gs, p) : p \in DOMAIN gs.pieces}
    \cup {rotatePieceState(gs, p, d) : p \in DOMAIN gs.pieces, d \in Deltas}
    \cup {flipPieceState(gs, p) : p \in DOMAIN gs.pieces}

\* the result of every placement / removal / rotate / flip call of the screen
IrregularOperationResults(sc) ==
    {handlePiecePlacementState(sc, p, s) :
         p \in DOMAIN sc.pieces, s \in DOMAIN sc.answerGrid}
    \cup {handlePieceRemovalState(sc, p) : p \in DOMAIN sc.pieces}
    \cup {handleRotatePieceState(sc, p, d) : p \in DOMAIN sc.pieces, d \in {1, -1}}
    \cup {handleFlipXState(sc, p) : p \in DOMAIN sc.pieces}

\* C3: redo cancellation.  In the hook and on the irregular screen, a place,
\* remove, rotate or flip call that changes grid, pieces or move counter
\* leaves the redo stack empty whatever it held; a call that changes none of
\* them leaves the redo stack as it was.
C3_RedoCancellation ==
    /\ Started =>
          \A n \in OperationResults(gameState) :
              n.redoStack = IF Changed(n, gameState) THEN << >>
                            ELSE gameState.redoStack
    /\ IrregularStarted =>
          \A n \in IrregularOperationResults(irregular) :
              n.redoHistory = IF Changed(n, irregular) THEN << >>
                              ELSE irregular.redoHistory

\* C3 happens: moves are waiting on the redo stack, one call is rejected and
\* another one goes through and empties the stack.
C3_Witness ==
    /\ Started
    /\ Len(gameState.redoStack) > 0
    /\ \E n \in OperationResults(gameState) : ~Changed(n, gameState)
    /\ \E n \in OperationResults(gameState) :
          Changed(n, gameState) /\ n.redoStack = << >>

\* C4: redo-stack invariant of the hook.  A step that changes the game state
\* and is neither an undo nor a redo (a place, remove, rotate, flip or hint)
\* leaves no move on the redo stack, so a non-empty redo stack always sits on
\* the state its last undo produced.
C4_RedoStackInvariant ==
    [][ ( /\ Started
          /\ gameState' # gameState
          /\ gameState' # undoState(gameState)
          /\ gameState' # redoState(gameState) )
        => gameState'.redoStack = << >> ]_vars

\* the family rules as the placement contract words them
ParityMismatch(gs, p, s) ==
    /\ pieceShape(gs.config) = "triangle"
    /\ (triangleType(gs.config, p) = "upper") # (s % 2 = 0)

TetrominoBlocked(gs, p, s) ==
    /\ pieceShape(gs.config) = "tetris"
    /\ \E c \in CellsAt(gs.config, p, s) :
          IF InBounds(gs.config, c)
             THEN gs.answerGrid[c.slot].id \notin {NULL, p}
             ELSE TRUE

EdgeIncompatible(sc, p, s) ==
    \E dir \in directions :
        LET nRow == (s \div IrregularCols) + dir.dr
            nCol == (s % IrregularCols) + dir.dc
            own == edgeOf(sc.pieces[p], dir.self)
        IN  IF nRow \in 0 .. (IrregularRows - 1) /\ nCol \in 0 .. (IrregularCols - 1)
               THEN LET n == sc.answerGrid[nRow * IrregularCols + nCol]
                    IN  /\ n.id # NULL
                        /\ <<own, edgeOf(n, dir.other)>> \in {<<1, 1>>, <<1, 0>>, <<0, 1>>}
               ELSE own = 1

\* C5: idempotent rejection.  A place call that the family's rule rejects
\* (triangle parity mismatch; tetromino cell out of bounds or held by another
\* piece; irregular edge incompatibility or convex edge on the boundary)
\* returns the very state it was given: grid, pieces, moves, history, redo
\* stack and completion flag, so any number of retries changes nothing.
C5_IdempotentRejection ==
    /\ Started =>
          \A p \in DOMAIN gameState.pieces, s \in DOMAIN gameState.answerGrid :
              (ParityMismatch(gameState, p, s) \/ TetrominoBlocked(gameState, p, s))
                 => placePieceToSlotState(gameState, p, s) = gameState
    /\ IrregularStarted =>
          \A p \in DOMAIN irregular.pieces, s \in DOMAIN irregular.answerGrid :
              EdgeIncompatible(irregular, p, s)
                 => handlePiecePlacementState(irregular, p, s) = irregular

\* C5 happens: a tetromino is aimed at cells that are all on the board, one
\* of them held by another piece, after moves have been made.
C5_Witness ==
    /\ Started
    /\ pieceShape(gameState.config) = "tetris"
    /\ gameState.moves > 0
    /\ \E p \in DOMAIN gameState.pieces, s \in DOMAIN gameState.answerGrid :
          /\ \A c \in CellsAt("tetris", p, s) : InBounds("tetris", c)
          /\ TetrominoBlocked(gameState, p, s)
          /\ placePieceToSlotState(gameState, p, s) = gameState

\* piece p sits in no slot of the grid
InNoSlot(grid, p) == \A i \in DOMAIN grid : grid[i].id # p

\* C6: replace semantics in the square and triangle families.  place(p, s)
\* on a slot of the right parity that holds another piece q, or nothing,
\* puts p on s with p.currentSlot = s, sends q to staging and out of the
\* grid, empties p's previous slot, adds 1 to moves and appends exactly one
\* move: 'replace' with replacedPieceId = q when s was held, 'place' when s
\* was empty, with fromSlot = p's previous slot and toSlot = s.
C6_ReplaceSemantics ==
    (Started /\ pieceShape(gameState.config) \in {"square", "triangle"}) =>
        \A p \in DOMAIN gameState.pieces, s \in DOMAIN gameState.answerGrid :
            LET q == gameState.answerGrid[s].id
                from == gameState.pieces[p].currentSlot
                n == placePieceToSlotState(gameState, p, s)
            IN  (q # p /\ ~ParityMismatch(gameState, p, s)) =>
                   /\ n.answerGrid[s].id = p
                   /\ n.pieces[p].currentSlot = s
                   /\ q # NULL => (n.pieces[q].currentSlot = NULL
                                     /\ InNoSlot(n.answerGrid, q))
                   /\ from # NULL => n.answerGrid[from].id = NULL
                   /\ n.moves = gameState.moves + 1
                   /\ n.history = Append(gameState.history,
                          Move(p, IF q # NULL THEN "replace" ELSE "place",
                               from, s, q, 0))

\* C7: undo of a replace.  When the last move is a 'replace' of q by p on
\* slot t, undo puts q back on t with q.currentSlot = t, puts p back on its
\* fromSlot with currentSlot = fromSlot (or in staging and in no slot when
\* it had none), takes 1 from moves, and moves the move from history to the
\* top of the redo stack.
C7_UndoReplace ==
    (Started /\ Len(gameState.history) > 0
             /\ Last(gameState.history).action = "replace") =>
        LET m == Last(gameState.history)
            n == undoState(gameState)
        IN  /\ n.answerGrid[m.toSlot].id = m.replacedPieceId
            /\ n.pieces[m.replacedPieceId].currentSlot = m.toSlot
            /\ IF m.fromSlot # NULL
                  THEN /\ n.answerGrid[m.fromSlot].id = m.pieceId
                       /\ n.pieces[m.pieceId].currentSlot = m.fromSlot
                  ELSE /\ n.pieces[m.pieceId].currentSlot = NULL
                       /\ InNoSlot(n.answerGrid, m.pieceId)
            /\ n.moves = gameState.moves - 1
            /\ n.history = Front(gameState.history)
            /\ n.redoStack = Append(gameState.redoStack, m)

\* C8: undo-then-redo identity.  In every reachable state with a non-empty
\* history, undo followed at once by redo gives back the same grid
\* occupancy, piece fields, move counter, history and redo stack.
C8_UndoRedoIdentity ==
    (Started /\ Len(gameState.history) > 0) =>
        LET n == redoState(undoState(gameState))
        IN  /\ Obs(n) = Obs(gameState)
            /\ n.history = gameState.history
            /\ n.redoStack = gameState.redoStack

\* the completion predicate as the contract words it
Solved(config, grid) ==
    \A i \in DOMAIN grid :
        /\ grid[i].id # NULL
        /\ correctSlot(config, grid[i].id) = i
        /\ grid[i].rotation % 360 = correctRotation(config, grid[i].id)
        /\ grid[i].isFlipped = correctIsFlipped(config, grid[i].id)

\* C9: completion detection in the square and triangle families.  An
\* accepted place call raises isCompleted exactly when the grid it produces
\* is full with every entry on its correct slot, at its correct rotation
\* modulo 360 and with its correct flip; so the flag stays false until the
\* last correct placement.
C9_CompletionDetection ==
    (Started /\ pieceShape(gameState.config) \in {"square", "triangle"}) =>
        \A p \in DOMAIN gameState.pieces, s \in DOMAIN gameState.answerGrid :
            LET n == placePieceToSlotState(gameState, p, s)
            IN  Changed(n, gameState) =>
                   /\ Solved(gameState.config, n.answerGrid) => n.isCompleted
                   /\ (~gameState.isCompleted /\ n.isCompleted)
                         => Solved(gameState.config, n.answerGrid)

\* C9 happens: a triangle board with a piece that needs a quarter turn is
\* one placement away from completion, and that placement raises the flag.
C9_Witness ==
    /\ Started
    /\ pieceShape(gameState.config) = "triangle"
    /\ ~gameState.isCompleted
    /\ \E p \in DOMAIN gameState.pieces, s \in DOMAIN gameState.answerGrid :
          /\ gameState.pieces[p].rotation % 360 # 0
          /\ placePieceToSlotState(gameState, p, s).isCompleted

\* C10: self-slot placement is a no-op in every family.  Placing a piece on
\* the slot it is currently placed at (its anchor slot for a tetromino)
\* leaves grid, pieces, move counter, history and redo stack unchanged.
C10_SelfSlotNoOp ==
    /\ Started =>
          \A p \in DOMAIN gameState.pieces :
              gameState.pieces[p].currentSlot # NULL =>
                 LET n == placePieceToSlotState(gameState, p,
                                                gameState.pieces[p].currentSlot)
                 IN  /\ ~Changed(n, gameState)
                     /\ Len(n.history) = Len(gameState.history)
                     /\ n.redoStack = gameState.redoStack
    /\ IrregularStarted =>
          \A p \in DOMAIN irregular.pieces :
              findIndex(irregular.answerGrid, p) # NULL =>
                 LET n == handlePiecePlacementState(irregular, p,
                              findIndex(irregular.answerGrid, p))
                 IN  /\ ~Changed(n, irregular)
                     /\ Len(n.history) = Len(irregular.history)
                     /\ n.redoHistory = irregular.redoHistory

\* the slots whose entry carries piece p's id
SlotsOf(gs, p) == {i \in DOMAIN gs.answerGrid : gs.answerGrid[i].id = p}

\* the slots piece p covers according to its currentSlot and occupiedPositions
CoveredSlots(gs, p) ==
    IF gs.pieces[p].currentSlot = NULL THEN {}
    ELSE {c.slot : c \in CellsAt(gs.config, p, gs.pieces[p].currentSlot)}

\* no rotate or flip has left a trace: none is recorded in history or redo
\* stack and every piece is unturned
PlacementsOnly(gs) ==
    /\ \A k \in DOMAIN gs.history : gs.history[k].action \in {"place", "remove", "replace"}
    /\ \A k \in DOMAIN gs.redoStack : gs.redoStack[k].action \in {"place", "remove", "replace"}
    /\ \A p \in DOMAIN gs.pieces : gs.pieces[p].rotation = 0 /\ ~gs.pieces[p].isFlipped

\* C11: tetromino multi-slot consistency.  In every state reached from
\* initializeGame by place, remove, undo, redo and hint calls, the slots whose
\* entry has the id of tetromino P are exactly the slots P covers when the
\* (min row, min col) corner of its occupiedPositions is mapped onto
\* P.currentSlot, and there are none when P.currentSlot is none.
C11_TetrominoConsistency ==
    (Started /\ pieceShape(gameState.config) = "tetris" /\ PlacementsOnly(gameState)) =>
        \A p \in DOMAIN gameState.pieces :
            SlotsOf(gameState, p) = CoveredSlots(gameState, p)

\* the forbidden pairs (own edge, facing edge): convex-convex, convex-flat,
\* flat-convex
ForbiddenPair(own, facing) == <<own, facing>> \in {<<1, 1>>, <<1, 0>>, <<0, 1>>}

\* piece p on slot s of screen sc is legal towards direction dir: a convex
\* edge never faces the boundary, and towards an occupied neighbour slot the
\* own edge and the neighbour's opposing edge, both as the piece collection
\* holds them, form no forbidden pair
LegalSide(sc, p, s, dir) ==
    LET nRow == (s \div IrregularCols) + dir.dr
        nCol == (s % IrregularCols) + dir.dc
        own == edgeOf(sc.pieces[p], dir.self)
    IN  IF nRow \in 0 .. (IrregularRows - 1) /\ nCol \in 0 .. (IrregularCols - 1)
           THEN LET n == sc.answerGrid[nRow * IrregularCols + nCol].id
                IN  n # NULL => ~ForbiddenPair(own, edgeOf(sc.pieces[n], dir.other))
           ELSE own # 1

\* C12: irregular edge legality.  Whenever handlePiecePlacement accepts
\* placing piece p on slot s, then in the state it produces, for each of the
\* four directions, the edge of p on that side and the current opposing edge
\* of the piece on the adjacent slot are not convex-convex, convex-flat or
\* flat-convex, and an edge of p that faces the grid boundary is not convex.
C12_EdgeLegality ==
    IrregularStarted =>
        \A p \in DOMAIN irregular.pieces, s \in DOMAIN irregular.answerGrid :
            ~handlePiecePlacementRejected(irregular, p, s) =>
                \A dir \in directions :
                    LegalSide(handlePiecePlacementState(irregular, p, s), p, s, dir)

\* the result of every place, remove, rotate, flip and hint call on gs
ForwardResults(gs) == OperationResults(gs) \cup {getHintState(gs)}

\* C13: the end timestamp is written once.  From the step on that makes
\* isCompleted true and sets endTime, no sequence of place, remove, rotate,
\* flip and hint calls (followed here for two calls) changes endTime, and no
\* such call on a completed game starts the timer again.
C13_EndTimeMonotonic ==
    [][ /\ ( /\ Started
             /\ ~gameState.isCompleted
             /\ gameState'.isCompleted /\ gameState'.endTime # 0 )
           => \A n1 \in ForwardResults(gameState') :
                 /\ n1.endTime = gameState'.endTime
                 /\ \A n2 \in ForwardResults(n1) : n2.endTime = gameState'.endTime
        /\ ( /\ Started
             /\ gameState.isCompleted /\ gameState.endTime # 0
             /\ gameState' \in ForwardResults(gameState) )
           => /\ timerRef' = "live" => timerRef = "live"
              /\ intervals' <= intervals ]_vars

\* the tetromino completion predicate as the contract words it
TetrominoSolved(config, grid) ==
    /\ \A i \in DOMAIN grid : grid[i].id # NULL
    /\ \A p \in PieceIds(config) :
          \A k \in DOMAIN correctSlots(config, p) :
              grid[correctSlots(config, p)[k]].id = p

\* C14: tetromino completion predicate.  In the tetromino family a place or
\* hint call turns isCompleted from false to true only when the grid it
\* produces has every slot filled and every correct slot of every piece held
\* by that piece; a filled grid with a piece off its correct slots is not
\* flagged complete.
C14_TetrominoCompletion ==
    (Started /\ pieceShape(gameState.config) = "tetris" /\ ~gameState.isCompleted) =>
        /\ \A p \in DOMAIN gameState.pieces, s \in DOMAIN gameState.answerGrid :
              LET n == placePieceToSlotState(gameState, p, s)
              IN  n.isCompleted => TetrominoSolved(n.config, n.answerGrid)
        /\ getHintState(gameState).isCompleted
              => TetrominoSolved(gameState.config, getHintState(gameState).answerGrid)

\* the irregular completion predicate as the contract words it: rotation and
\* flip are those the piece collection holds
IrregularSolved(sc) ==
    \A i \in DOMAIN sc.answerGrid :
        LET p == sc.answerGrid[i].id
        IN  /\ p # NULL
            /\ homeSlot(p) = i
            /\ sc.pieces[p].rotation % 360 = 0
            /\ ~sc.pieces[p].flipX

\* C15: irregular completion predicate.  A placement on the irregular screen
\* turns isComplete from false to true only when, in the state it produces,
\* every slot is filled and every piece on the grid sits on the slot
\* gridRow * cols + gridCol, with an accumulated rotation in the piece
\* collection that is a multiple of 360 and with flipX false.
C15_IrregularCompletion ==
    (IrregularStarted /\ ~irregular.isComplete) =>
        \A p \in DOMAIN irregular.pieces, s \in DOMAIN irregular.answerGrid :
            LET n == handlePiecePlacementState(irregular, p, s)
            IN  n.isComplete => IrregularSolved(n)

\* the family's completion predicate on the pieces' own currentSlot, rotation
\* and isFlipped values
FamilySolved(gs) ==
    IF pieceShape(gs.config) = "tetris"
       THEN TetrominoSolved(gs.config, gs.answerGrid)
       ELSE /\ \A i \in DOMAIN gs.answerGrid : gs.answerGrid[i].id # NULL
            /\ \A p \in DOMAIN gs.pieces :
                  /\ gs.pieces[p].currentSlot = correctSlot(gs.config, p)
                  /\ ((gs.pieces[p].rotation % 360) + 360) % 360
                        = correctRotation(gs.config, p)
                  /\ gs.pieces[p].isFlipped = correctIsFlipped(gs.config, p)

\* the states one successful place, remove, rotate, flip, undo or redo leads to
MutatingResults(gs) ==
    NewOperations(gs) \cup ({undoState(gs), redoState(gs)} \ {gs})

\* C16: completion is evaluated after every mutating operation of the hook.
\* After every successful place, remove, rotate, flip, undo or redo, a state
\* whose pieces satisfy the family's completion predicate has isCompleted
\* true; rotating the last mis-rotated piece into its correct orientation
\* while all pieces sit on their correct slots sets isCompleted.
C16_CompletionAfterEveryOperation ==
    Started =>
        \A n \in MutatingResults(gameState) : FamilySolved(n) => n.isCompleted

\* C17: irregular operation-ordering guard.  A flip request is ignored (the
\* state, the history and the move counter stay as they are) whenever the
\* piece's last operation was a rotation and its accumulated rotation is not
\* a multiple of 360; a rotate request is ignored whenever the piece's last
\* operation was a flip and it has been flipped an odd number of times since
\* its last rotation; a rotate is performed only when the piece was not last
\* flipped or has been flipped an even number of times since then.
C17_OperationOrderingGuard ==
    IrregularStarted =>
        \A p \in DOMAIN irregular.pieces :
            LET piece == irregular.pieces[p]
            IN  /\ (piece.lastOperation = "rotate" /\ piece.rotation % 360 # 0)
                      => handleFlipXState(irregular, p) = irregular
                /\ \A d \in {1, -1} :
                      LET r == handleRotatePieceState(irregular, p, d)
                      IN  /\ (piece.lastOperation = "flip" /\ piece.flipCount % 2 = 1)
                                => r = irregular
                          /\ r # irregular
                                => (piece.lastOperation # "flip"
                                       \/ piece.flipCount % 2 = 0)

\* a fresh game: nothing placed, nothing turned, nothing counted
Fresh(gs) ==
    /\ \A i \in DOMAIN gs.answerGrid : gs.answerGrid[i].id = NULL
    /\ \A p \in DOMAIN gs.pieces :
          /\ gs.pieces[p].currentSlot = NULL
          /\ gs.pieces[p].rotation = 0
          /\ ~gs.pieces[p].isFlipped
    /\ gs.moves = 0
    /\ gs.history = << >>
    /\ gs.redoStack = << >>
    /\ ~gs.isCompleted
    /\ gs.elapsedTime = 0

\* C18: initialisation and reset of the hook.  The state initializeGame
\* builds for a configuration, and the state resetGame builds from any
\* reachable state, has every slot empty, every piece in staging with
\* rotation 0 and not flipped, moves = 0, empty history and redo stack,
\* isCompleted false and elapsedTime 0.
C18_InitialiseAndReset ==
    /\ \A config \in Configs : Fresh(initialState(config, generatedPieces(config)))
    /\ Started => Fresh(resetGameState(gameState))

\* the candidates of a hint as the contract words them
Candidate(gs, p) ==
    \/ gs.pieces[p].currentSlot = NULL
    \/ gs.pieces[p].currentSlot # correctSlot(gs.config, p)
    \/ gs.pieces[p].rotation # 0
    \/ gs.pieces[p].isFlipped

PlacedButWrong(gs, p) == Candidate(gs, p) /\ gs.pieces[p].currentSlot # NULL

\* the correct slot of p lies in row 0, the last row, column 0 or the last
\* column (a triangle slot lies where its square cell lies)
OnBorder(gs, p) ==
    LET cell == IF pieceShape(gs.config) = "triangle"
                   THEN correctSlot(gs.config, p) \div 2
                   ELSE correctSlot(gs.config, p)
    IN  \/ cell \div Cols(gs.config) \in {0, Rows(gs.config) - 1}
        \/ cell % Cols(gs.config) \in {0, Cols(gs.config) - 1}

\* C19: hint priority of the hook.  When there is a candidate (an unplaced
\* piece, or a placed piece off its correct slot, turned or flipped), the
\* piece the hint chooses is a candidate; its correct slot is on the grid
\* border if some candidate's is; and it is placed-but-wrong if some
\* candidate of its border class is placed-but-wrong.
C19_HintPriority ==
    (Started /\ \E p \in DOMAIN gameState.pieces : Candidate(gameState, p)) =>
        LET chosen == hintTarget(gameState)
        IN  /\ Candidate(gameState, chosen)
            /\ (\E q \in DOMAIN gameState.pieces :
                   Candidate(gameState, q) /\ OnBorder(gameState, q))
                  => OnBorder(gameState, chosen)
            /\ (\E q \in DOMAIN gameState.pieces :
                   /\ Candidate(gameState, q)
                   /\ OnBorder(gameState, q) = OnBorder(gameState, chosen)
                   /\ PlacedButWrong(gameState, q))
                  => PlacedButWrong(gameState, chosen)

\* C19 happens: an interior piece and two border pieces are candidates, the
\* border piece that comes first is unplaced, a later one is placed but
\* wrong, and the hint chooses the later one.
C19_Witness ==
    /\ Started
    /\ \E q \in DOMAIN gameState.pieces :
          Candidate(gameState, q) /\ ~OnBorder(gameState, q)
    /\ \E q1, q2 \in DOMAIN gameState.pieces :
          /\ q1 < q2
          /\ OnBorder(gameState, q1) /\ gameState.pieces[q1].currentSlot = NULL
          /\ OnBorder(gameState, q2) /\ PlacedButWrong(gameState, q2)
          /\ hintTarget(gameState) = q2
          /\ selectedPiece # q2
          /\ getHintState(gameState).pieces[q2].currentSlot
                = correctSlot(gameState.config, q2)

\* what the contract asks of one hint on a square or triangle board
HintEffect(gs) ==
    LET chosen == hintTarget(gs)
        home == correctSlot(gs.config, chosen)
        from == gs.pieces[chosen].currentSlot
        occupant == gs.answerGrid[home].id
        evicted == IF occupant # NULL /\ occupant # chosen THEN {occupant} ELSE {}
        next == getHintState(gs)
    IN  /\ next.answerGrid[home].id = chosen
        /\ next.answerGrid[home].rotation = 0
        /\ next.answerGrid[home].isFlipped = FALSE
        /\ next.pieces[chosen] =
              [currentSlot |-> home, rotation |-> 0, isFlipped |-> FALSE]
        /\ (from # NULL /\ from # home) => next.answerGrid[from] = EmptySlot
        /\ \A q \in evicted :
              /\ next.pieces[q].currentSlot = NULL
              /\ next.pieces[q].rotation = gs.pieces[q].rotation
              /\ next.pieces[q].isFlipped = gs.pieces[q].isFlipped
        /\ \A q \in DOMAIN gs.pieces \ ({chosen} \cup evicted) :
              next.pieces[q] = gs.pieces[q]
        /\ \A i \in DOMAIN gs.answerGrid \ {home, from} :
              next.answerGrid[i] = gs.answerGrid[i]

\* C20: hint effect of the hook on square and triangle boards.  After a hint
\* with a non-empty candidate set the chosen piece is on its correctSlot with
\* rotation 0 and isFlipped false in the grid entry and in the piece
\* collection, its previous slot (if different) is empty, a different piece
\* that held the correct slot is in staging with currentSlot none, and every
\* other piece and slot is unchanged.
C20_HintEffect ==
    (Started /\ pieceShape(gameState.config) \in {"square", "triangle"}
             /\ hasHint(gameState))
        => HintEffect(gameState)

\* C20 happens: the chosen piece is turned and sits on another slot, a
\* different piece holds its correct slot, and the hint moves both.
C20_Witness ==
    /\ Started
    /\ pieceShape(gameState.config) \in {"square", "triangle"}
    /\ hasHint(gameState)
    /\ LET chosen == hintTarget(gameState)
           home == correctSlot(gameState.config, chosen)
           from == gameState.pieces[chosen].currentSlot
           occupant == gameState.answerGrid[home].id
       IN  /\ from # NULL /\ from # home
           /\ gameState.pieces[chosen].rotation # 0
           /\ occupant # NULL /\ occupant # chosen
           /\ gameState.pieces[occupant].currentSlot = home
           /\ getHintState(gameState).pieces[occupant].currentSlot = NULL
           /\ getHintState(gameState).answerGrid[home].id = chosen
           /\ getHintState(gameState).answerGrid[from] = EmptySlot

\* C21: no-op guards of the hook.  undo with an empty history, redo with an
\* empty redo stack, remove of a piece that is not placed, and a hint with no
\* candidate each leave the whole game state as it was.
C21_NoOpGuards ==
    Started =>
        /\ Len(gameState.history) = 0 => undoState(gameState) = gameState
        /\ Len(gameState.redoStack) = 0 => redoState(gameState) = gameState
        /\ \A p \in DOMAIN gameState.pieces :
              gameState.pieces[p].currentSlot = NULL
                 => removePieceFromSlotState(gameState, p) = gameState
        /\ (\A p \in DOMAIN gameState.pieces : ~Candidate(gameState, p))
              => getHintState(gameState) = gameState

\* C21 happens: a game in progress (a hint has placed a piece, so a move is
\* counted) with an empty history, an empty redo stack and a piece in
\* staging, on which undo, redo and remove are called.
C21_Witness ==
    /\ Started
    /\ gameState.moves > 0
    /\ Len(gameState.history) = 0
    /\ Len(gameState.redoStack) = 0
    /\ \E p, q \in DOMAIN gameState.pieces :
          /\ gameState.pieces[p].currentSlot = NULL
          /\ gameState.pieces[q].currentSlot # NULL
          /\ removePieceFromSlotState(gameState, p) = gameState
          /\ removePieceFromSlotState(gameState, q) # gameState
    /\ undoState(gameState) = gameState
    /\ redoState(gameState) = gameState

\* C21 happens for the hint: every piece is in place and the hint is called
C21_WitnessHint ==
    /\ Started
    /\ \A p \in DOMAIN gameState.pieces : ~Candidate(gameState, p)
    /\ getHintState(gameState) = gameState

\* what the contract asks of remove(p) on a placed piece
RemoveEffect(gs, p) ==
    LET next == removePieceFromSlotState(gs, p)
    IN  /\ \A i \in DOMAIN gs.answerGrid :
              next.answerGrid[i] = IF gs.answerGrid[i].id = p
                                      THEN EmptySlot ELSE gs.answerGrid[i]
        /\ next.pieces[p].currentSlot = NULL
        /\ \A q \in DOMAIN gs.pieces \ {p} : next.pieces[q] = gs.pieces[q]
        /\ next.pieces[p].rotation = gs.pieces[p].rotation
        /\ next.pieces[p].isFlipped = gs.pieces[p].isFlipped
        /\ next.moves = gs.moves + 1
        /\ Len(next.history) = Len(gs.history) + 1
        /\ Front(next.history) = gs.history
        /\ Last(next.history).action = "remove"
        /\ Last(next.history).pieceId = p
        /\ Last(next.history).fromSlot = gs.pieces[p].currentSlot
        /\ Last(next.history).toSlot = NULL
        /\ next.redoStack = << >>
        /\ next.isCompleted = gs.isCompleted

\* C22: remove of the hook.  remove(p) of a placed piece clears every grid
\* slot whose entry has p's id, sets p.currentSlot to none, adds one to
\* moves, appends one 'remove' move from p's previous slot to none, empties
\* the redo stack, and changes no other piece and no other slot.
C22_RemoveEffect ==
    Started =>
        \A p \in DOMAIN gameState.pieces :
            gameState.pieces[p].currentSlot # NULL => RemoveEffect(gameState, p)

\* undo moved the last move of history h, whole, onto the redo stack r
MovedToRedo(h, r, h2, r2) ==
    /\ Len(h2) = Len(h) - 1
    /\ \A k \in 1 .. Len(h2) : h2[k] = h[k]
    /\ Len(r2) = Len(r) + 1
    /\ \A k \in 1 .. Len(r) : r2[k] = r[k]
    /\ r2[Len(r2)] = h[Len(h)]

\* C23: history / redo stack discipline of the hook and of the irregular
\* screen.  undo removes exactly the last element of history and pushes that
\* same move on top of the redo stack; redo removes exactly the top of the
\* redo stack and appends that same move to history; the two lengths add up
\* to the same number before and after; undo takes one off the move
\* counter, never below 0, and redo adds one.
C23_StackDiscipline ==
    /\ (Started /\ Len(gameState.history) > 0) =>
          LET next == undoState(gameState)
          IN  /\ MovedToRedo(gameState.history, gameState.redoStack,
                             next.history, next.redoStack)
              /\ next.moves = IF gameState.moves > 0 THEN gameState.moves - 1 ELSE 0
    /\ (Started /\ Len(gameState.redoStack) > 0) =>
          LET next == redoState(gameState)
          IN  /\ MovedToRedo(gameState.redoStack, gameState.history,
                             next.redoStack, next.history)
              /\ next.moves = gameState.moves + 1
    /\ (IrregularStarted /\ Len(irregular.history) > 0) =>
          LET next == handleUndoState(irregular)
          IN  /\ MovedToRedo(irregular.history, irregular.redoHistory,
                             next.history, next.redoHistory)
              /\ next.moves = IF irregular.moves > 0 THEN irregular.moves - 1 ELSE 0
    /\ (IrregularStarted /\ Len(irregular.redoHistory) > 0) =>
          LET next == handleRedoState(irregular)
          IN  /\ MovedToRedo(irregular.redoHistory, irregular.history,
                             next.redoHistory, next.history)
              /\ next.moves = irregular.moves + 1

\* C23 happens: the hook has two different moves in history and a move on
\* the redo stack, and both undo and redo are called.
C23_Witness ==
    /\ Started
    /\ Len(gameState.history) >= 2
    /\ gameState.history[1] # gameState.history[2]
    /\ Len(gameState.redoStack) >= 1
    /\ Len(undoState(gameState).redoStack) = Len(gameState.redoStack) + 1
    /\ Len(redoState(gameState).history) = Len(gameState.history) + 1

\* C23 happens on the irregular screen as well
C23_WitnessIrregular ==
    /\ IrregularStarted
    /\ Len(irregular.history) >= 2
    /\ irregular.history[1] # irregular.history[2]
    /\ Len(irregular.redoHistory) >= 1
    /\ Len(handleUndoState(irregular).redoHistory) = Len(irregular.redoHistory) + 1

\* C24: frame condition of the timer tick of the hook.  A tick, at any turn
\* boundary, changes only the timer value and GameState.elapsedTime: grid,
\* pieces, move counter, history, redo stack and completion flag (and
\* everything else the hook holds) are as before the tick.
C24_TickFrame ==
    [][ (timer' # timer /\ ops' = ops) =>
           /\ gameState' = [gameState EXCEPT !.elapsedTime = gameState'.elapsedTime]
           /\ gameState'.elapsedTime \in {gameState.elapsedTime, timer'}
           /\ UNCHANGED <<selectedPiece, timerRef, intervals, irregular, saved, mounted>>
      ]_vars

\* C24 happens: ticks have fired between the calls of a game that has moves,
\* a history and a redo stack
C24_Witness ==
    /\ Started
    /\ timer > 0
    /\ gameState.elapsedTime = timer
    /\ gameState.moves > 0
    /\ Len(gameState.history) > 0
    /\ Len(gameState.redoStack) > 0
    /\ \E i \in DOMAIN gameState.answerGrid : gameState.answerGrid[i].id # NULL

\* the step re-initialises the hook's game or loads another state into it
Reinitialised ==
    \/ gameState' = resetGameState(gameState)
    \/ saved # NoGame /\ gameState' = stateWithRedoStack(saved.state)

\* C25: elapsed time stops at completion, in both implementations.  Once the
\* completion flag is true, no tick and no operation changes the recorded
\* elapsed time until the game is re-initialised or another state is loaded;
\* and in the hook the operation that detects completion clears the
\* interval.
C25_ElapsedStopsAtCompletion ==
    [][ /\ (Started /\ gameState.isCompleted /\ ~Reinitialised)
              => gameState'.elapsedTime = gameState.elapsedTime
        /\ (Started /\ ~gameState.isCompleted /\ ~Reinitialised
                    /\ gameState'.isCompleted)
              => (intervals' = 0 /\ timerRef' # "live")
        /\ (IrregularStarted /\ irregular.isComplete
                             /\ irregular' # handleRestartState(irregular))
              => irregular'.elapsedTime = irregular.elapsedTime
      ]_vars

\* C25 happens: a game that ticks had reached was completed by a call, which
\* cleared the interval, and calls went on after the completion
C25_Witness ==
    /\ Started
    /\ gameState.isCompleted
    /\ gameState.elapsedTime > 0
    /\ timer = gameState.elapsedTime
    /\ intervals = 0
    /\ Len(gameState.redoStack) > 0

\* C25 happens on the irregular screen
C25_WitnessIrregular ==
    /\ IrregularStarted
    /\ irregular.isComplete
    /\ irregular.elapsedTime > 0
    /\ Len(irregular.redoHistory) > 0

\* C26: timer resource discipline of the hook.  At most one interval callback
\* is active at any time, none is active after teardown, and none is active
\* while the current game state is completed.
C26_TimerDiscipline ==
    /\ intervals <= 1
    /\ ~mounted => intervals = 0
    /\ (Started /\ gameState.isCompleted) => intervals = 0

\* the fields a GameState has
GameStateFields == DOMAIN initialState("square", generatedPieces("square"))

\* C27: defensive load of the hook.  The state that loadGame or the preloaded
\* state effect sets always has a redo stack that is a sequence - the
\* persisted one, or the empty one when the persisted record has no
\* redoStack field - so that a following redo is a no-op and a following
\* undo pushes onto a well-defined stack; every other loaded field is taken
\* over unchanged.  Hence every game state of the hook has a redo stack.
C27_DefensiveLoad ==
    /\ Started => DOMAIN gameState = GameStateFields
    /\ saved # NoGame =>
          LET s == saved.state
              next == stateWithRedoStack(s)
          IN  /\ DOMAIN next = GameStateFields
              /\ \A f \in DOMAIN s \ {"redoStack"} : next[f] = s[f]
              /\ DOMAIN next.redoStack = 1 .. Len(next.redoStack)
              /\ ("redoStack" \in DOMAIN s) => (next.redoStack = s.redoStack)
              /\ ("redoStack" \notin DOMAIN s) =>
                    /\ next.redoStack = << >>
                    /\ redoState(next) = next
                    /\ (Len(next.history) > 0) =>
                          (undoState(next).redoStack
                              = <<next.history[Len(next.history)]>>)

\* C27 happens: a record without a redoStack field is in the save service,
\* the game has gone on since (it has a redo stack and another history), and
\* the record is loaded
C27_Witness ==
    /\ Started
    /\ mounted
    /\ saved # NoGame
    /\ saved.origin = "saveGame"
    /\ "redoStack" \notin DOMAIN saved.state
    /\ Len(saved.state.history) > 0
    /\ Len(gameState.redoStack) > 0
    /\ gameState.history # saved.state.history
    /\ stateWithRedoStack(saved.state).redoStack = << >>
    /\ stateWithRedoStack(saved.state).history = saved.state.history

\* next is prev with one new move m recorded and the redo stack emptied,
\* and with nothing changed but piece p
PieceOnlyChange(prev, next, p) ==
    /\ next.answerGrid = prev.answerGrid
    /\ \A q \in DOMAIN prev.pieces \ {p} : next.pieces[q] = prev.pieces[q]
    /\ next.pieces[p].currentSlot = prev.pieces[p].currentSlot
    /\ next.moves = prev.moves + 1
    /\ Len(next.history) = Len(prev.history) + 1
    /\ \A k \in 1 .. Len(prev.history) : next.history[k] = prev.history[k]
    /\ next.history[Len(next.history)].pieceId = p
    /\ next.redoStack = << >>
    /\ next.isCompleted = prev.isCompleted
    /\ next.config = prev.config

\* C28: rotate and flip of the hook are pure piece mutations.  rotate(p,
\* delta) always succeeds and adds delta to p.rotation without wraparound;
\* flip(p) toggles p.isFlipped; each adds one to moves, appends one 'rotate'
\* move (with the delta) or one 'flip' move, empties the redo stack, and
\* leaves the grid, every other piece and p's currentSlot unchanged.
C28_RotateFlipPure ==
    Started =>
        \A p \in DOMAIN gameState.pieces :
            /\ \A delta \in {90, -90} :
                  LET next == rotatePieceState(gameState, p, delta)
                  IN  /\ PieceOnlyChange(gameState, next, p)
                      /\ next.pieces[p].rotation = gameState.pieces[p].rotation + delta
                      /\ next.pieces[p].isFlipped = gameState.pieces[p].isFlipped
                      /\ next.history[Len(next.history)].action = "rotate"
                      /\ next.history[Len(next.history)].delta = delta
            /\ LET next == flipPieceState(gameState, p)
               IN  /\ PieceOnlyChange(gameState, next, p)
                   /\ next.pieces[p].isFlipped = ~gameState.pieces[p].isFlipped
                   /\ next.pieces[p].rotation = gameState.pieces[p].rotation
                   /\ next.history[Len(next.history)].action = "flip"

\* C28 happens: a placed piece that has been turned by 270 degrees is turned
\* once more, to 360, and a piece is flipped while a redo stack exists
C28_Witness ==
    /\ Started
    /\ \E p \in DOMAIN gameState.pieces :
          /\ gameState.pieces[p].rotation = 270
          /\ gameState.pieces[p].currentSlot # NULL
          /\ rotatePieceState(gameState, p, 90).pieces[p].rotation = 360
          /\ rotatePieceState(gameState, p, 90).answerGrid = gameState.answerGrid

\* C28 happens with a redo stack to empty
C28_WitnessRedo ==
    /\ Started
    /\ Len(gameState.redoStack) > 0
    /\ \E p \in DOMAIN gameState.pieces :
          /\ gameState.pieces[p].isFlipped
          /\ gameState.pieces[p].currentSlot # NULL
          /\ flipPieceState(gameState, p).redoStack = << >>

\* the grid slots of the screen that hold piece p
IrregularSlotsOf(sc, p) == {i \in DOMAIN sc.answerGrid : sc.answerGrid[i].id = p}

\* C29: piece partition of the irregular screen.  In every state reached from
\* startGame, every piece is either in the staging list (isCorrect false)
\* and in no grid slot, or in exactly one grid slot (isCorrect true) - never
\* in both and never in neither.
C29_PiecePartition ==
    IrregularStarted =>
        \A p \in DOMAIN irregular.pieces :
            \/ ~irregular.pieces[p].isCorrect /\ IrregularSlotsOf(irregular, p) = {}
            \/ irregular.pieces[p].isCorrect
                  /\ Cardinality(IrregularSlotsOf(irregular, p)) = 1

\* the accumulated rotation and the four edge codes of a piece
Orientation(piece) ==
    <<piece.rotation, piece.up, piece.right, piece.down, piece.left>>

\* C30: rotate replay of the irregular screen.  For every piece and every
\* reachable state in which a rotate is performed, with flipX true or false,
\* undo restores the piece's accumulated rotation and its four edge codes to
\* their values before the rotate, and a following redo reproduces the
\* rotation and edge codes the rotate produced.
C30_RotateReplay ==
    IrregularStarted =>
        \A p \in DOMAIN irregular.pieces, direction \in {1, -1} :
            LET rotated == handleRotatePieceState(irregular, p, direction)
                undone == handleUndoState(rotated)
                redone == handleRedoState(undone)
            IN  rotated # irregular =>
                   /\ Orientation(undone.pieces[p]) = Orientation(irregular.pieces[p])
                   /\ Orientation(redone.pieces[p]) = Orientation(rotated.pieces[p])

\* C31: on the irregular screen no piece is at once flipped (flipX true) and
\* turned to an accumulated rotation that is not a multiple of 360, in any
\* state reached by rotate, flip, undo and redo.
C31_OrientationExclusive ==
    IrregularStarted =>
        \A p \in DOMAIN irregular.pieces :
            ~(irregular.pieces[p].flipX
              /\ JsRem(irregular.pieces[p].rotation, 360) # 0)

\* the four edge codes of a piece in the order up, right, down, left
Edges(piece) == <<piece.up, piece.right, piece.down, piece.left>>

\* the edge codes e moved k places round the cycle up, right, down, left
CycleBy(e, k) == [i \in 1 .. 4 |-> e[((i - 1 - k) % 4) + 1]]

\* how many of the four edge codes of e equal code
CodeCount(e, code) == Cardinality({i \in 1 .. 4 : e[i] = code})

\* four calls of handleRotatePiece in the same direction
FourRotations(sc, p, direction) ==
    handleRotatePieceState(
        handleRotatePieceState(
            handleRotatePieceState(
                handleRotatePieceState(sc, p, direction), p, direction),
            p, direction),
        p, direction)

\* C32: the edge-code algebra of the irregular screen.  An accepted rotate
\* moves the four edge codes one place round the cycle, the other way round
\* when the piece is flipped; four accepted rotations in the same direction
\* bring the edge codes back while the rotation changes by +360 or -360; an
\* accepted flip swaps exactly left and right and toggles flipX, so two flips
\* in a row restore edge codes and flipX; the multiset of the four edge codes
\* of a piece never changes.
C32_EdgeCodeAlgebra ==
    IrregularStarted =>
        \A p \in DOMAIN irregular.pieces :
            LET piece == irregular.pieces[p]
                flipped == handleFlipXState(irregular, p)
                flippedTwice == handleFlipXState(flipped, p)
            IN  /\ \A direction \in {1, -1} :
                       LET rotated == handleRotatePieceState(irregular, p, direction)
                           four == FourRotations(irregular, p, direction)
                       IN  rotated # irregular =>
                              /\ Edges(rotated.pieces[p]) =
                                    CycleBy(Edges(piece),
                                            IF piece.flipX THEN -direction
                                            ELSE direction)
                              /\ rotated.pieces[p].flipX = piece.flipX
                              /\ Len(four.history) = Len(irregular.history) + 4
                              /\ Edges(four.pieces[p]) = Edges(piece)
                              /\ four.pieces[p].rotation - piece.rotation
                                    \in {360, -360}
                /\ flipped # irregular =>
                       /\ Edges(flipped.pieces[p]) =
                             <<piece.up, piece.left, piece.down, piece.right>>
                       /\ flipped.pieces[p].flipX = ~piece.flipX
                       /\ flipped.pieces[p].rotation = piece.rotation
                       /\ flippedTwice # flipped
                       /\ Edges(flippedTwice.pieces[p]) = Edges(piece)
                       /\ flippedTwice.pieces[p].flipX = piece.flipX
                /\ \A code \in {-1, 0, 1} :
                       CodeCount(Edges(piece), code) =
                           CodeCount(Edges(generatedEdges(p)), code)

\* a flipped piece whose rotate and whose flip are both accepted
C32_Witness ==
    /\ IrregularStarted
    /\ \E p \in DOMAIN irregular.pieces :
          /\ irregular.pieces[p].flipX
          /\ Edges(irregular.pieces[p]) # Edges(generatedEdges(p))
          /\ handleRotatePieceState(irregular, p, 1) # irregular
          /\ handleRotatePieceState(irregular, p, -1) # irregular
          /\ handleFlipXState(irregular, p) # irregular

\* the screen after handleRestart followed by startGame
Restarted(sc) == startGameState(handleRestartState(sc))

\* C33: a restart of the irregular screen yields a fresh session.  After
\* handleRestart followed by startGame the history and the redo history are
\* empty, moves is 0, every slot of the grid is null and the completion flag
\* is false, so an undo or a redo issued right after the restart changes
\* nothing.
C33_RestartFresh ==
    IrregularStarted =>
        LET fresh == Restarted(irregular)
        IN  /\ fresh.history = << >>
            /\ fresh.redoHistory = << >>
            /\ fresh.moves = 0
            /\ \A i \in DOMAIN fresh.answerGrid : fresh.answerGrid[i].id = NULL
            /\ ~fresh.isComplete
            /\ handleUndoState(fresh) = fresh
            /\ handleRedoState(fresh) = fresh

\* C34: grid entries mirror the piece collection.  In every reachable state
\* of either implementation, for every occupied slot the orientation stored
\* with the grid entry (rotation, flip flag and, for irregular pieces, the
\* four edge codes) equals that of the piece with the same id in the piece
\* collection.
C34_GridMirrorsPieces ==
    /\ Started =>
           \A i \in DOMAIN gameState.answerGrid :
               LET entry == gameState.answerGrid[i]
               IN  entry.id # NULL =>
                      /\ entry.rotation = gameState.pieces[entry.id].rotation
                      /\ entry.isFlipped = gameState.pieces[entry.id].isFlipped
    /\ IrregularStarted =>
           \A i \in DOMAIN irregular.answerGrid :
               LET entry == irregular.answerGrid[i]
               IN  entry.id # NULL =>
                      /\ entry.rotation = irregular.pieces[entry.id].rotation
                      /\ entry.flipX = irregular.pieces[entry.id].flipX
                      /\ Edges(entry) = Edges(irregular.pieces[entry.id])

\* the entry of slot s has, towards dir, no convex edge facing the boundary
\* and no forbidden pair with the entry of an occupied neighbour slot
CompatibleSide(sc, s, dir) ==
    LET nRow == (s \div IrregularCols) + dir.dr
        nCol == (s % IrregularCols) + dir.dc
        own == edgeOf(sc.answerGrid[s], dir.self)
    IN  IF nRow \in 0 .. (IrregularRows - 1) /\ nCol \in 0 .. (IrregularCols - 1)
           THEN LET n == sc.answerGrid[nRow * IrregularCols + nCol]
                IN  n.id # NULL => ~ForbiddenPair(own, edgeOf(n, dir.other))
           ELSE own # 1

\* C35: the irregular board stays edge-compatible.  In every state reached by
\* placement, removal, rotate, flip, undo, redo and hint, every pair of
\* adjacent occupied slots holds entries whose facing edge codes are none of
\* convex-convex, convex-flat and flat-convex, and no entry on the grid
\* boundary has a convex edge facing outward.
C35_BoardEdgeCompatible ==
    IrregularStarted =>
        \A s \in DOMAIN irregular.answerGrid :
            irregular.answerGrid[s].id # NULL =>
                \A dir \in directions : CompatibleSide(irregular, s, dir)

\* C36: the move counter of usePuzzleGame equals the history length.  In
\* every state reached from initializeGame by place, remove, rotate, flip,
\* undo, redo and hint, moves = length(history).
C36_MovesEqualHistory ==
    Started => gameState.moves = Len(gameState.history)

\* the state after k calls of getHint
RECURSIVE Hinted(_, _)
Hinted(gs, k) == IF k = 0 THEN gs ELSE Hinted(getHintState(gs), k - 1)

\* C37: hints make progress to completion, for the square family with every
\* correctRotation 0 and correctIsFlipped false.  From every state reached
\* from initializeGame, calling getHint at most once per piece reaches a
\* state in which isCompleted is true; and in every reachable state in which
\* getHint finds no candidate, isCompleted is true.
C37_HintsComplete ==
    (Started /\ pieceShape(gameState.config) = "square") =>
        /\ \E k \in 0 .. Cardinality(DOMAIN gameState.pieces) :
               Hinted(gameState, k).isCompleted
        /\ ~hasHint(gameState) => gameState.isCompleted

\* C38: the highlight of a hint does not clobber later selections.  When the
\* delayed callback of a hint runs while the selection is no longer the
\* piece that hint highlighted (the user has selected a piece, or another
\* hint has highlighted one), the selection is still in place afterwards.
C38_HighlightKeepsLaterSelection ==
    [][ ( /\ hintTimeouts # << >>
          /\ hintTimeouts' = Tail(hintTimeouts)
          /\ selectedPiece # Head(hintTimeouts) )
            => selectedPiece' = selectedPiece ]_vars

\* slot index s has the parity of the half of piece p: even for an upper
\* triangle, odd for a lower one
ParityFits(config, p, s) ==
    \/ triangleType(config, p) = "upper" /\ s % 2 = 0
    \/ triangleType(config, p) = "lower" /\ s % 2 = 1

\* C39: the triangle parity invariant of usePuzzleGame.  With pieces whose
\* correctSlot has the parity of their half, in every state reached by place,
\* remove, undo, redo and hint (and rotate and flip), every placed
\* upper-triangle piece occupies an even slot index and every placed
\* lower-triangle piece an odd one, in the grid and in the piece collection.
C39_TriangleParity ==
    (Started /\ pieceShape(gameState.config) = "triangle") =>
        /\ \A p \in DOMAIN gameState.pieces :
               ParityFits(gameState.config, p, correctSlot(gameState.config, p))
        /\ \A i \in DOMAIN gameState.answerGrid :
               gameState.answerGrid[i].id # NULL =>
                   ParityFits(gameState.config, gameState.answerGrid[i].id, i)
        /\ \A p \in DOMAIN gameState.pieces :
               gameState.pieces[p].currentSlot # NULL =>
                   ParityFits(gameState.config, p, gameState.pieces[p].currentSlot)

\* an upper triangle sits on an even slot that is not its own, a lower one
\* is placed, moves were undone, and a placement on a slot of the wrong
\* parity is open to the caller
C39_Witness ==
    /\ Started
    /\ pieceShape(gameState.config) = "triangle"
    /\ \E i \in DOMAIN gameState.answerGrid :
          LET p == gameState.answerGrid[i].id
          IN  /\ p # NULL
              /\ triangleType(gameState.config, p) = "upper"
              /\ i # correctSlot(gameState.config, p)
    /\ \E i \in DOMAIN gameState.answerGrid :
          /\ gameState.answerGrid[i].id # NULL
          /\ triangleType(gameState.config, gameState.answerGrid[i].id) = "lower"
    /\ Len(gameState.redoStack) > 0
    /\ \E p \in DOMAIN gameState.pieces, s \in DOMAIN gameState.answerGrid :
          /\ ~ParityFits(gameState.config, p, s)
          /\ gameState.answerGrid[s].id = NULL

\* C40: in usePuzzleGame a place call clears the selection only on success.
\* A place call that succeeds resets the selected-piece marker to none; a
\* place call that is rejected, or is a self-slot no-op, leaves the marker
\* unchanged.
C40_PlaceClearsSelectionOnSuccess ==
    Started =>
        \A p \in DOMAIN gameState.pieces, s \in DOMAIN gameState.answerGrid :
            selectedAfterPlace(gameState, selectedPiece, p, s) =
                IF placeRejected(gameState, p, s) THEN selectedPiece ELSE NULL

====
